---- MODULE Spec2Model ----
(***************************************************************************)
(* grub-wiz: the Config Line Model (GrubFile.py) and the Rule Validation   *)
(* Engine with its disk-layout probe (WizValidator.py).                    *)
(*                                                                         *)
(* A Python str is a sequence of characters; a character is a one-letter   *)
(* TLA+ string.  The two sentinel strings of GrubFile are one-character    *)
(* strings whose character is not ASCII: it is written by its code point.  *)
(* Python's None is the one-element sequence <<"None">> where a string is  *)
(* expected, <<>> in param_of (the code tests "not param") and 0 for a     *)
(* line number: line numbers are 1-based here, Python's i is i+1.          *)
(***************************************************************************)
EXTENDS Integers, Sequences, FiniteSets, TLC

VARIABLES
    disk,              \* content of file_path, a sequence of characters
    lines,             \* GrubFile.lines
    param_of,          \* GrubFile.param_of
    param_data,        \* GrubFile.param_data: name -> record
    supported_params,  \* GrubFile.supported_params: ordered dict, a sequence of [name, cfg]
    extra_params,      \* GrubFile.extra_params: name -> cfg
    source,            \* what the last read_file read (history)
    last,              \* the last call made and how it ended
    nreads,            \* number of read_file calls made after construction
    cleanse_arg,       \* the argument of a call of _cleanse
    cleanse_ret,       \* what that call returned, None before it
    disk_layout_cache, \* WizValidator._disk_layout_cache
    wiz_param_cfg,     \* WizValidator.param_cfg: ordered dict, a sequence of [name, cfg]
    lsblk_runs,        \* number of times lsblk was run (history)
    wiz_last,          \* the last call made on the validator and how it ended
    stack,             \* ScreenStack.stack: the screens under the current one
    curr,              \* ScreenStack.curr
    pick_pos,          \* ConsoleWindow.pick_pos
    scroll_pos,        \* ConsoleWindow.scroll_pos
    prev_pos,          \* GrubWiz.prev_pos
    bak_lines,         \* GrubWiz.bak_lines: "None", "[]" or "lines"
    nav_last,          \* the last key handled or call made on the stack, and how it ended
    cache_file,        \* content of ParamDiscovery.cache_file
    now,               \* time.time(), in weeks
    disc_last          \* the last call made on the discovery and how it ended

grub_vars == <<disk, lines, param_of, param_data, supported_params, extra_params,
               source, last, nreads, cleanse_arg, cleanse_ret>>

wiz_vars == <<disk_layout_cache, wiz_param_cfg, lsblk_runs, wiz_last>>

scr_vars == <<stack, curr, pick_pos, scroll_pos, prev_pos, bak_lines, nav_last>>

disc_vars == <<cache_file, now, disc_last>>

vars == <<disk, lines, param_of, param_data, supported_params, extra_params,
          source, last, nreads, cleanse_arg, cleanse_ret,
          disk_layout_cache, wiz_param_cfg, lsblk_runs, wiz_last,
          stack, curr, pick_pos, scroll_pos, prev_pos, bak_lines, nav_last,
          cache_file, now, disc_last>>

\* ---------------------------------------------------------------- bounds

MaxPieces == 2

MaxReads == 1

\* the most pieces in a file that is read again after it is written
MaxLifePieces == 1

\* the longest value string handed to _cleanse alone
MaxValueLen == 5

\* the most partitions of the one disk lsblk lists
MaxPartitions == 1

\* the most times lsblk is run
MaxRuns == 2

\* the most parameters whose value differs from the usual one
MaxChanged == 1

\* ------------------------------------------------------------- constants

COMMENT == <<"U+220E">>

ABSENT == <<"U+2261">>

None == <<"None">>

NoLine == 0

\* the content of file_path when no file is there (open raises FileNotFoundError)
NoFile == <<"FileNotFoundError">>

WrapWidth == 68

Whitespace == {" ", "\t", "\n", "\r"}

Upper == {"A","B","C","D","E","F","G","H","I","J","K","L","M",
          "N","O","P","Q","R","S","T","U","V","W","X","Y","Z"}

GRUB_TIMEOUT ==
    <<"G","R","U","B","_","T","I","M","E","O","U","T">>

GRUB_THEME ==
    <<"G","R","U","B","_","T","H","E","M","E">>

GRUB_FOO ==
    <<"G","R","U","B","_","F","O","O">>

GRUB_BADRAM ==
    <<"G","R","U","B","_","B","A","D","R","A","M">>

TIMEOUT_GUIDANCE ==
    <<"S","e","t"," ","t","h","e"," ","t","i","m","e","o","u","t"," ","i","n"," ","s","e","c",
      "o","n","d","s"," ","b","e","f","o","r","e"," ","t","h","e"," ","d","e","f","a","u","l",
      "t"," ","e","n","t","r","y"," ","b","o","o","t","s","."," ","U","s","e"," ","-","1"," ",
      "t","o"," ","w","a","i","t"," ","i","n","d","e","f","i","n","i","t","e","l","y",","," ",
      "0"," ","t","o"," ","b","o","o","t"," ","i","m","m","e","d","i","a","t","e","l","y",".">>

THEME_GUIDANCE ==
    <<"P","a","t","h"," ","t","o"," ","G","R","U","B"," ","t","h","e","m","e"," ","d","i","r",
      "e","c","t","o","r","y","."," ","E","x","a","m","p","l","e",":"," ","/","b","o","o","t",
      "/","g","r","u","b","/","t","h","e","m","e","s","/","m","y","t","h","e","m","e">>

\* -------------------------------------------------------- str operations

RECURSIVE lstrip(_)
lstrip(s) ==
    IF s # <<>> /\ Head(s) \in Whitespace THEN lstrip(Tail(s)) ELSE s

RECURSIVE rstrip(_)
rstrip(s) ==
    IF s # <<>> /\ s[Len(s)] \in Whitespace THEN rstrip(SubSeq(s, 1, Len(s) - 1)) ELSE s

strip(s) == rstrip(lstrip(s))

startswith(s, p) == Len(s) >= Len(p) /\ SubSeq(s, 1, Len(p)) = p

RECURSIVE join(_, _)
join(sep, parts) ==
    IF parts = <<>> THEN <<>>
    ELSE IF Len(parts) = 1 THEN parts[1]
    ELSE parts[1] \o sep \o join(sep, Tail(parts))

RECURSIVE concat(_)
concat(parts) ==
    IF parts = <<>> THEN <<>> ELSE Head(parts) \o concat(Tail(parts))

Min(S) == CHOOSE x \in S : \A y \in S : x <= y

Max(S) == CHOOSE x \in S : \A y \in S : x >= y

\* f.readlines() of a file opened in text mode with the default newline=None:
\* "\n", "\r\n" and a lone "\r" all end a line and are all read as "\n".
RECURSIVE readlines(_)
readlines(content) ==
    LET ends == {i \in 1..Len(content) : content[i] \in {"\n", "\r"}}
    IN  IF content = <<>> THEN <<>>
        ELSE IF ends = {} THEN <<content>>
        ELSE
          LET e == Min(ends)
              crlf == content[e] = "\r" /\ e < Len(content) /\ content[e + 1] = "\n"
              next == IF crlf THEN e + 2 ELSE e + 1
          IN  <<Append(SubSeq(content, 1, e - 1), "\n")>>
              \o readlines(SubSeq(content, next, Len(content)))

\* ------------------------------------------------------ GrubFile._cleanse

\* The loop of _cleanse: the index of the first '#' outside quotes, or
\* one past the end (comment_index = len(value_part)); 1-based.
RECURSIVE comment_index(_, _, _, _)
comment_index(v, i, in_single_quotes, in_double_quotes) ==
    IF i > Len(v) THEN Len(v) + 1
    ELSE IF v[i] = "'" /\ ~in_double_quotes
        THEN comment_index(v, i + 1, ~in_single_quotes, in_double_quotes)
    ELSE IF v[i] = "\"" /\ ~in_single_quotes
        THEN comment_index(v, i + 1, in_single_quotes, ~in_double_quotes)
    ELSE IF v[i] = "#" /\ ~in_single_quotes /\ ~in_double_quotes
        THEN i
    ELSE comment_index(v, i + 1, in_single_quotes, in_double_quotes)

\* _cleanse that clips at the first '#', quoted or not
cleanse_any_hash(value_part) ==
    LET v == strip(value_part)
        hashes == {i \in 1..Len(v) : v[i] = "#"}
    IN  rstrip(SubSeq(v, 1, IF hashes = {} THEN Len(v) ELSE Min(hashes) - 1))

cleanse(value_part) ==
    LET v == strip(value_part)
    IN  rstrip(SubSeq(v, 1, comment_index(v, 1, FALSE, FALSE) - 1))

\* ------------------------------------------- the assignment line pattern

\* skip \s* from position i
RECURSIVE skip_ws(_, _)
skip_ws(s, i) ==
    IF i <= Len(s) /\ s[i] \in Whitespace THEN skip_ws(s, i + 1) ELSE i

\* end of the longest run of [A-Z_] from position i (one past it)
RECURSIVE name_run(_, _)
name_run(s, i) ==
    IF i <= Len(s) /\ (s[i] \in Upper \/ s[i] = "_") THEN name_run(s, i + 1) ELSE i

\* t is (_[A-Z]+)+
segments_ok(t) ==
    /\ t # <<>>
    /\ t[1] = "_"
    /\ t[Len(t)] # "_"
    /\ \A k \in 1..(Len(t) - 1) : ~(t[k] = "_" /\ t[k + 1] = "_")

NoMatch == [ok |-> FALSE, is_comment |-> FALSE, param |-> <<>>, value_part |-> <<>>]

\* re.match(r"\s*(#)?\s*(GRUB(_[A-Z]+)+)\s*=(.*)$", line).  The name is the
\* longest run of [A-Z_] after GRUB: what follows a shorter one is neither
\* blank nor '=', so the regex's backtracking finds no other match.
re_match(line) ==
    LET a == skip_ws(line, 1)
        hash == a <= Len(line) /\ line[a] = "#"
        b == skip_ws(line, IF hash THEN a + 1 ELSE a)
        c == name_run(line, b)
        name == SubSeq(line, b, c - 1)
        d == skip_ws(line, c)
    IN  IF /\ startswith(name, <<"G","R","U","B">>)
           /\ segments_ok(SubSeq(name, 5, Len(name)))
           /\ d <= Len(line) /\ line[d] = "="
           /\ \A k \in (d + 1)..Len(line) : line[k] # "\n"
        THEN [ok |-> TRUE, is_comment |-> hash, param |-> name,
              value_part |-> SubSeq(line, d + 1, Len(line))]
        ELSE NoMatch

\* ----------------------------------------------------------- textwrap.wrap

\* str.expandtabs(): a tab becomes the spaces up to the next multiple of 8,
\* the column counted from the last line break of what was expanded so far
RECURSIVE expandtabs(_, _)
expandtabs(s, out) ==
    LET tabs == {i \in 1..Len(s) : s[i] = "\t"}
    IN  IF tabs = {} THEN out \o s
        ELSE
          LET t == Min(tabs)
              o1 == out \o SubSeq(s, 1, t - 1)
              breaks == {i \in 1..Len(o1) : o1[i] \in {"\n", "\r"}}
              col == Len(o1) - (IF breaks = {} THEN 0 ELSE Max(breaks))
          IN  expandtabs(SubSeq(s, t + 1, Len(s)),
                         o1 \o [k \in 1..(8 - (col % 8)) |-> " "])

\* TextWrapper._munge_whitespace: tabs expanded, then each whitespace -> ' '
munge_whitespace(text) ==
    LET e == expandtabs(text, <<>>)
    IN  [k \in 1..Len(e) |-> IF e[k] \in Whitespace THEN " " ELSE e[k]]

\* TextWrapper._split with break_on_hyphens=False: re.split(r'(\s+)', text)
\* without the empty pieces: the runs of blanks and of non-blanks, in order.
\* A chunk starts where a blank follows a non-blank or the reverse.
split_chunks(text) ==
    LET starts == {k \in 1..Len(text) :
                      k = 1 \/ ((text[k] \in Whitespace) # (text[k - 1] \in Whitespace))}
        nth(j) == CHOOSE b \in starts : Cardinality({c \in starts : c < b}) = j - 1
        stop(j) == IF j = Cardinality(starts) THEN Len(text) ELSE nth(j + 1) - 1
    IN  [j \in 1..Cardinality(starts) |-> SubSeq(text, nth(j), stop(j))]

is_blank(chunk) == strip(chunk) = <<>>

\* the inner loop of _wrap_chunks: chunks taken while they fit the width
RECURSIVE take_chunks(_, _, _, _)
take_chunks(chunks, cur_line, cur_len, width) ==
    IF chunks # <<>> /\ cur_len + Len(Head(chunks)) <= width
    THEN take_chunks(Tail(chunks), Append(cur_line, Head(chunks)),
                     cur_len + Len(Head(chunks)), width)
    ELSE [cur_line |-> cur_line, chunks |-> chunks]

\* TextWrapper._wrap_chunks with drop_whitespace=True, break_long_words=False
RECURSIVE wrap_chunks(_, _, _)
wrap_chunks(chunks, out, width) ==
    IF chunks = <<>> THEN out
    ELSE
      LET c0 == IF is_blank(Head(chunks)) /\ out # <<>> THEN Tail(chunks) ELSE chunks
          t == take_chunks(c0, <<>>, 0, width)
          \* _handle_long_word: a chunk longer than the width gets a line of its own
          long == t.chunks # <<>> /\ Len(Head(t.chunks)) > width /\ t.cur_line = <<>>
          cur1 == IF long THEN <<Head(t.chunks)>> ELSE t.cur_line
          rest == IF long THEN Tail(t.chunks) ELSE t.chunks
          cur2 == IF cur1 # <<>> /\ is_blank(cur1[Len(cur1)])
                  THEN SubSeq(cur1, 1, Len(cur1) - 1) ELSE cur1
      IN  wrap_chunks(rest, IF cur2 # <<>> THEN Append(out, concat(cur2)) ELSE out, width)

wrap(text, width) ==
    wrap_chunks(split_chunks(munge_whitespace(text)), <<>>, width)

\* wrap() of the guidance texts of the metadata table, computed once
WrappedGuidance ==
    [text \in {TIMEOUT_GUIDANCE, THEME_GUIDANCE} |-> wrap(text, WrapWidth)]

\* textwrap.wrap(guidance, width=68, break_long_words=False, break_on_hyphens=False)
wrap_guidance(text) ==
    IF text \in DOMAIN WrappedGuidance THEN WrappedGuidance[text] ELSE wrap(text, WrapWidth)

\* ------------------------------------------- GrubFile._collect_guidance

RECURSIVE guidance_lines(_, _)
guidance_lines(ls, idx) ==
    IF idx < 1 THEN <<>>
    ELSE LET line == strip(ls[idx])
         IN  IF line = <<>> \/ Head(line) # "#" THEN <<>>
             ELSE Append(guidance_lines(ls, idx - 1), lstrip(Tail(line)))

collect_guidance(ls, line_index) == join(<<"\n">>, guidance_lines(ls, line_index - 1))

\* ------------------------------------------------------- the object state

\* CannedConfig.default_cfg with the two fields read_file overrides
param_cfg(default, guidance) ==
    [default |-> default, edit_re |-> "EXPERT_EDIT", enums |-> <<>>,
     guidance |-> guidance, hide |-> FALSE]

\* the SimpleNamespace of _initialize_param_data
fresh_data == [line_num |-> NoLine, value |-> ABSENT, new_value |-> None, out_value |-> None]

names_of(supported) == {supported[k].name : k \in 1..Len(supported)}

\* ParamDiscovery.get_absent([param]): the names known not to exist on this system
get_absent(param) == param \in {GRUB_BADRAM}

\* an adoption that leaves the template's default in place
adopt_template_default(self, i, param, value_part) ==
    LET cfg == param_cfg(<<>>, collect_guidance(self.lines, i))
    IN  [self EXCEPT
            !.extra_params = (param :> cfg) @@ @,
            !.supported_params = Append(@, [name |-> param, cfg |-> cfg]),
            !.param_data = (param :> fresh_data) @@ @]

\* "param not in self.supported_params" ... "self.param_data[param] = ...":
\* an unvalidated parameter is adopted with the default_cfg template
adopt(self, i, param, value_part) ==
    LET cfg == param_cfg(cleanse(value_part), collect_guidance(self.lines, i))
    IN  [self EXCEPT
            !.extra_params = (param :> cfg) @@ @,
            !.supported_params = Append(@, [name |-> param, cfg |-> cfg]),
            !.param_data = (param :> fresh_data) @@ @]

\* "Record this line as the current value for this parameter"
record_line(data, i, is_comment, value) ==
    [data EXCEPT !.line_num = i,
                 !.value = IF is_comment THEN COMMENT ELSE value,
                 !.out_value = IF is_comment THEN value ELSE None]

\* a supersede that leaves the previous line its owner
supersede_keeping_owner(self, data) ==
    [self EXCEPT
        !.lines[data.line_num] = IF data.value # COMMENT THEN <<"#">> \o @ ELSE @]

\* "Mark the previous line as superseded"
supersede(self, data) ==
    [self EXCEPT
        !.lines[data.line_num] = IF data.value # COMMENT THEN <<"#">> \o @ ELSE @,
        !.param_of[data.line_num] = <<>>]

\* one iteration of the loop of read_file over self.lines
scan_line(self, i) ==
    LET line == strip(self.lines[i])
        mat == re_match(line)
    IN  IF line = <<>> \/ ~mat.ok THEN self
        ELSE IF mat.param \notin names_of(self.supported_params) /\ get_absent(mat.param)
            THEN self
        ELSE
          LET s1 == IF /\ mat.param \notin names_of(self.supported_params)
                       /\ mat.param \notin DOMAIN self.extra_params
                    THEN adopt(self, i, mat.param, mat.value_part) ELSE self
              data == s1.param_data[mat.param]
          IN  IF data.line_num # NoLine /\ mat.is_comment /\ data.value # COMMENT
              THEN s1
              ELSE
                LET s2 == IF data.line_num # NoLine THEN supersede(s1, data) ELSE s1
                IN  [s2 EXCEPT
                        !.param_of[i] = mat.param,
                        !.param_data[mat.param] =
                            record_line(@, i, mat.is_comment, cleanse(mat.value_part))]

RECURSIVE scan_lines(_, _)
scan_lines(self, i) ==
    IF i > Len(self.lines) THEN self ELSE scan_lines(scan_line(self, i), i + 1)

\* an _initialize_param_data that keeps the pending value of a record it has
initialize_param_data_keeping(self) ==
    [p \in DOMAIN self.param_data \cup names_of(self.supported_params) |->
        IF p \in names_of(self.supported_params)
        THEN IF p \in DOMAIN self.param_data
             THEN [fresh_data EXCEPT !.new_value = self.param_data[p].new_value]
             ELSE fresh_data
        ELSE self.param_data[p]]

\* _initialize_param_data: every supported param back to ABSENT
initialize_param_data(self) ==
    [p \in DOMAIN self.param_data \cup names_of(self.supported_params) |->
        IF p \in names_of(self.supported_params) THEN fresh_data ELSE self.param_data[p]]

\* GrubFile.read_file, file_path holding the given content or no file
read_file(self, content) ==
    LET ls == readlines(content)
        s0 == [self EXCEPT !.lines = ls,
                           !.param_of = [k \in 1..Len(ls) |-> <<>>],
                           !.param_data = initialize_param_data(self)]
    IN  IF content = NoFile THEN [self EXCEPT !.lines = <<>>]
        ELSE scan_lines(s0, 1)

\* GrubFile.__init__ followed by its read_file
construct(supported, content) ==
    read_file([lines |-> <<>>, param_of |-> <<>>, param_data |-> <<>>,
               supported_params |-> supported, extra_params |-> <<>>], content)

\* --------------------------------------------------- TUI interaction

get_current_state(self, param) == self.param_data[param].value

\* set_new_value that applies the value at once
set_new_value_applies(pdata, param, value) ==
    [pdata EXCEPT ![param].new_value = value, ![param].value = value]

\* set_new_value: "self.param_data[param].new_value = value"
set_new_value(pdata, param, value) == [pdata EXCEPT ![param].new_value = value]

\* del_parameter: "self.param_data[param].new_value = self.COMMENT"
del_parameter(pdata, param) == [pdata EXCEPT ![param].new_value = COMMENT]

\* --------------------------------------------------------- write_file

\* write_file that puts '#' before every cleared line, commented already or not
existing_line_always_hash(self, i) ==
    LET param == self.param_of[i]
        line == self.lines[i]
    IN  IF param = <<>> THEN << <<" ", line>> >>
        ELSE
          LET data == self.param_data[param]
          IN  IF data.new_value = None THEN << <<"=", line>> >>
              ELSE IF data.new_value = COMMENT
                  THEN IF data.value = ABSENT THEN <<>>
                       ELSE << <<"~", <<"#">> \o line>> >>
              ELSE << <<"~", param \o <<"=">> \o data.new_value \o <<"\n">> >> >>

\* "1. Process existing lines": what line i contributes to new_lines
existing_line(self, i) ==
    LET param == self.param_of[i]
        line == self.lines[i]
    IN  IF param = <<>> THEN << <<" ", line>> >>
        ELSE
          LET data == self.param_data[param]
          IN  IF data.new_value = None THEN << <<"=", line>> >>
              ELSE IF data.new_value = COMMENT
                  THEN IF data.value = ABSENT THEN <<>>
                       ELSE IF data.value # COMMENT THEN << <<"~", <<"#">> \o line>> >>
                       ELSE << <<"~", line>> >>
              ELSE << <<"~", param \o <<"=">> \o data.new_value \o <<"\n">> >> >>

\* "assert new_value != self.ABSENT": the lines on which the assertion fails
assert_fails(self) ==
    {i \in 1..Len(self.lines) :
        /\ self.param_of[i] # <<>>
        /\ self.param_data[self.param_of[i]].new_value = ABSENT}

\* "2. Append new parameters": what one supported param contributes
appended_block(self, entry) ==
    LET data == self.param_data[entry.name]
        wrapped_lines == IF entry.cfg.guidance # <<>>
                         THEN wrap_guidance(entry.cfg.guidance) ELSE <<>>
    IN  IF data.value = ABSENT /\ data.new_value # None /\ data.new_value # COMMENT
        THEN << <<"+ ", <<"\n">> >> >>
             \o [k \in 1..Len(wrapped_lines) |->
                    <<"+", <<"#", " ">> \o wrapped_lines[k] \o <<"\n">> >>]
             \o << <<"+", entry.name \o <<"=">> \o data.new_value \o <<"\n">> >> >>
        ELSE <<>>

RECURSIVE existing_lines(_, _)
existing_lines(self, i) ==
    IF i > Len(self.lines) THEN <<>>
    ELSE existing_line(self, i) \o existing_lines(self, i + 1)

RECURSIVE appended_blocks(_, _)
appended_blocks(self, k) ==
    IF k > Len(self.supported_params) THEN <<>>
    ELSE appended_block(self, self.supported_params[k]) \o appended_blocks(self, k + 1)

\* new_lines of write_file: (prefix, line) pairs
new_lines(self) == existing_lines(self, 1) \o appended_blocks(self, 1)

\* "for prefix, line in new_lines: f.write(line)": the file's content
file_content(nl) == concat([k \in 1..Len(nl) |-> nl[k][2]])

\* ------------------------------------------------------------- inputs

\* the metadata table handed to GrubFile (the guidance of GrubFile.main)
Supported0 ==
    << [name |-> GRUB_TIMEOUT, cfg |-> param_cfg(<<"5">>, TIMEOUT_GUIDANCE)],
       [name |-> GRUB_THEME, cfg |-> param_cfg(<<>>, THEME_GUIDANCE)] >>

\* pieces of file content; a file is up to MaxPieces of them, one after another
FilePieces ==
    { \* GRUB_TIMEOUT=5 / GRUB_TIMEOUT=7, the second indented
      GRUB_TIMEOUT \o <<"=","5","\n">> \o <<" "," ">> \o GRUB_TIMEOUT \o <<"=","7","\n">>,
      \* GRUB_TIMEOUT=10 # ten
      GRUB_TIMEOUT \o <<"=","1","0"," ","#"," ","t","e","n","\n">>,
      \* #GRUB_TIMEOUT=5
      <<"#">> \o GRUB_TIMEOUT \o <<"=","5","\n">>,
      \*  # GRUB_TIMEOUT = "a #b" # c    (ended by CR LF)
      <<" ","#"," ">> \o GRUB_TIMEOUT
          \o <<" ","="," ","\"","a"," ","#","b","\""," ","#"," ","c","\r","\n">>,
      \* an empty line and a comment
      <<"\n","#"," ","n","o","t","e","\n">>,
      \* GRUB_TIMEOUT 5: no '='    (ended by CR LF)
      GRUB_TIMEOUT \o <<" ","5","\r","\n">>,
      \* GRUB_THEME='/x' with no line end
      GRUB_THEME \o <<"=","'","/","x","'">>,
      \* a comment and GRUB_FOO=1, a name the metadata table does not have
      <<"#"," ","f","o","o"," ","d","o","c","\n">> \o GRUB_FOO \o <<"=","1","\n">>,
      \* GRUB_BADRAM=1, a name known absent on this system
      GRUB_BADRAM \o <<"=","1","\n">>,
      \* GRUB_TIMEOUT= and the character the code keeps for "absent"
      GRUB_TIMEOUT \o <<"=">> \o ABSENT \o <<"\n">>,
      \* GRUB_TIMEOUT= and the character the code keeps for "commented"
      GRUB_TIMEOUT \o <<"=">> \o COMMENT \o <<"\n">> }

Files == {concat(f) : f \in UNION {[1..n -> FilePieces] : n \in 0..MaxPieces}}

\* the values the caller passes to set_new_value ("a new, legal value")
LegalValues == { <<"\"","a"," ","#","b","\"">> }

\* ------------------------------------------------------------ the machine

Obj == [lines |-> lines, param_of |-> param_of, param_data |-> param_data,
        supported_params |-> supported_params, extra_params |-> extra_params]

Call(op, param, rv) == [op |-> op, param |-> param, rv |-> rv]

Install(o) ==
    /\ lines' = o.lines
    /\ param_of' = o.param_of
    /\ param_data' = o.param_data
    /\ supported_params' = o.supported_params
    /\ extra_params' = o.extra_params

\* self._disk_layout_cache is None
NoCache == [is_none |-> TRUE]

\* no exception
NoExc == ""

\* a call on the validator: what it was given, how the run of lsblk it made
\* ended ("" if it made none), the exception that left it or the value it
\* returned
WizCall(op, input, lsblk, raised, rv) ==
    [op |-> op, input |-> input, lsblk |-> lsblk, raised |-> raised, rv |-> rv]

\* no WizValidator is constructed
NoValidator ==
    /\ disk_layout_cache = NoCache
    /\ wiz_param_cfg = <<>>
    /\ lsblk_runs = 0
    /\ wiz_last = WizCall("", <<>>, "", NoExc, NoCache)

\* a call on the screen stack or a key handled: what it was given, the
\* exception that left it or the value it returned
NavCall(op, arg, raised, rv) == [op |-> op, arg |-> arg, raised |-> raised, rv |-> rv]

\* None, returned or held where a number or a flag is otherwise
PyNone == [is_none |-> TRUE]

\* a value returned that is not None
Returned(v) == [is_none |-> FALSE, v |-> v]

\* self.curr is None
NoCurr == [is_none |-> TRUE]

\* no ScreenStack is constructed
NoScreens ==
    /\ stack = <<>>
    /\ curr = NoCurr
    /\ pick_pos = 0
    /\ scroll_pos = 0
    /\ prev_pos = 0
    /\ bak_lines = "None"
    /\ nav_last = NavCall("", <<>>, NoExc, PyNone)

\* a call on the discovery: what it was given, whether the discovery
\* was run, the value it returned
DiscCall(op, input, discovered, rv) ==
    [op |-> op, input |-> input, discovered |-> discovered, rv |-> rv]

\* no ParamDiscovery is constructed
NoDiscovery ==
    /\ cache_file = NoCache
    /\ now = 0
    /\ disc_last = DiscCall("", <<>>, FALSE, {})

\* the state after GrubFile(supported_params, file_path) on an existing file
Init ==
    /\ disk \in Files
    /\ LET o == construct(Supported0, disk)
       IN  /\ lines = o.lines
           /\ param_of = o.param_of
           /\ param_data = o.param_data
           /\ supported_params = o.supported_params
           /\ extra_params = o.extra_params
    /\ source = disk
    /\ last = Call("__init__", <<>>, "None")
    /\ nreads = 0
    /\ cleanse_arg = <<>>
    /\ cleanse_ret = None
    /\ NoValidator
    /\ NoScreens
    /\ NoDiscovery

SetNewValue(param, value) ==
    /\ param_data' = set_new_value(param_data, param, value)
    /\ last' = Call("set_new_value", param, "None")
    /\ UNCHANGED <<disk, lines, param_of, supported_params, extra_params, source,
                   nreads, cleanse_arg, cleanse_ret>>
    /\ UNCHANGED wiz_vars
    /\ UNCHANGED scr_vars
    /\ UNCHANGED disc_vars

DelParameter(param) ==
    /\ param_data' = del_parameter(param_data, param)
    /\ last' = Call("del_parameter", param, "None")
    /\ UNCHANGED <<disk, lines, param_of, supported_params, extra_params, source,
                   nreads, cleanse_arg, cleanse_ret>>
    /\ UNCHANGED wiz_vars
    /\ UNCHANGED scr_vars
    /\ UNCHANGED disc_vars

\* write_file() to file_path, the write succeeding
WriteFile ==
    /\ names_of(supported_params) \subseteq DOMAIN param_data
    /\ assert_fails(Obj) = {}
    /\ disk' = file_content(new_lines(Obj))
    /\ last' = Call("write_file", <<>>, "True")
    /\ UNCHANGED <<lines, param_of, param_data, supported_params, extra_params, source,
                   nreads, cleanse_arg, cleanse_ret>>
    /\ UNCHANGED wiz_vars
    /\ UNCHANGED scr_vars
    /\ UNCHANGED disc_vars

\* write_file() stopped by its assertion; python -O drops the assertion
WriteFileAssert ==
    /\ assert_fails(Obj) # {}
    /\ \E optimized \in BOOLEAN :
          IF optimized
          THEN /\ disk' = file_content(new_lines(Obj))
               /\ last' = Call("write_file", <<>>, "True")
          ELSE /\ disk' = disk
               /\ last' = Call("write_file", <<>>, "AssertionError")
    /\ UNCHANGED <<lines, param_of, param_data, supported_params, extra_params, source,
                   nreads, cleanse_arg, cleanse_ret>>
    /\ UNCHANGED wiz_vars
    /\ UNCHANGED scr_vars
    /\ UNCHANGED disc_vars

\* read_file() called again on the constructed object
ReadFile ==
    /\ nreads < MaxReads
    /\ Install(read_file(Obj, disk))
    /\ source' = disk
    /\ last' = Call("read_file", <<>>, "None")
    /\ nreads' = nreads + 1
    /\ UNCHANGED <<disk, cleanse_arg, cleanse_ret>>
    /\ UNCHANGED wiz_vars
    /\ UNCHANGED scr_vars
    /\ UNCHANGED disc_vars

Next ==
    \/ \E param \in DOMAIN param_data : \E value \in LegalValues : SetNewValue(param, value)
    \/ \E param \in DOMAIN param_data : DelParameter(param)
    \/ WriteFile

Spec == Init /\ [][Next]_vars

\* the same, with read_file called again
SpecReload == Init /\ [][Next \/ ReadFile]_vars

\* the same, the caller passing any string to set_new_value
NextAnyValue ==
    \/ Next
    \/ \E param \in DOMAIN param_data : SetNewValue(param, ABSENT)
    \/ WriteFileAssert

SpecAnyValue == Init /\ [][NextAnyValue]_vars

\* a method that looks param up in param_data, param having no record
KeyError(op, param) ==
    /\ param \in names_of(supported_params) \ DOMAIN param_data
    /\ last' = Call(op, param, "KeyError")
    /\ UNCHANGED <<disk, lines, param_of, param_data, supported_params, extra_params,
                   source, nreads, cleanse_arg, cleanse_ret>>
    /\ UNCHANGED wiz_vars
    /\ UNCHANGED scr_vars
    /\ UNCHANGED disc_vars

\* write_file() reaching "data = self.param_data[param]" for a param with no record
WriteFileKeyError ==
    /\ ~(names_of(supported_params) \subseteq DOMAIN param_data)
    /\ last' = Call("write_file", <<>>, "KeyError")
    /\ UNCHANGED <<disk, lines, param_of, param_data, supported_params, extra_params,
                   source, nreads, cleanse_arg, cleanse_ret>>
    /\ UNCHANGED wiz_vars
    /\ UNCHANGED scr_vars
    /\ UNCHANGED disc_vars

\* write_file() that forgets the pending edits when the write fails
WriteFileFailsForgetting ==
    /\ names_of(supported_params) \subseteq DOMAIN param_data
    /\ assert_fails(Obj) = {}
    /\ disk' = disk
    /\ last' = Call("write_file", <<>>, "False")
    /\ param_data' = [p \in DOMAIN param_data |-> [param_data[p] EXCEPT !.new_value = None]]
    /\ UNCHANGED <<lines, param_of, supported_params, extra_params, source,
                   nreads, cleanse_arg, cleanse_ret>>
    /\ UNCHANGED wiz_vars
    /\ UNCHANGED scr_vars
    /\ UNCHANGED disc_vars

\* write_file(), the open or a write raising: the file is as it was (open
\* failed) or was opened, and so emptied, before the failure
WriteFileFails ==
    /\ names_of(supported_params) \subseteq DOMAIN param_data
    /\ assert_fails(Obj) = {}
    /\ \E opened \in BOOLEAN : disk' = IF opened THEN <<>> ELSE disk
    /\ last' = Call("write_file", <<>>, "False")
    /\ UNCHANGED <<lines, param_of, param_data, supported_params, extra_params, source,
                   nreads, cleanse_arg, cleanse_ret>>
    /\ UNCHANGED wiz_vars
    /\ UNCHANGED scr_vars
    /\ UNCHANGED disc_vars

\* GrubFile(Supported0, file_path), file_path holding one of the given contents
InitOn(contents) ==
    /\ disk \in contents
    /\ LET o == construct(Supported0, disk)
       IN  /\ lines = o.lines
           /\ param_of = o.param_of
           /\ param_data = o.param_data
           /\ supported_params = o.supported_params
           /\ extra_params = o.extra_params
    /\ source = disk
    /\ last = Call("__init__", <<>>, "None")
    /\ nreads = 0
    /\ cleanse_arg = <<>>
    /\ cleanse_ret = None
    /\ NoValidator
    /\ NoScreens
    /\ NoDiscovery

\* a call that finds no record for the param it is given
NoRecord ==
    \E param \in names_of(supported_params) :
        \E op \in {"get_current_state", "set_new_value", "del_parameter"} : KeyError(op, param)

\* a GrubFile built on a file or on none, edited and written, the write
\* failing or not
InitFail == InitOn(Files \cup {NoFile})

NextFail ==
    \/ Next
    \/ WriteFileFails
    \/ WriteFileKeyError
    \/ NoRecord

SpecFail == InitFail /\ [][NextFail]_vars

\* write_file(use_stdout=True): new_lines go to stdout, each after its
\* prefix; the file is not opened
WriteStdout ==
    /\ names_of(supported_params) \subseteq DOMAIN param_data
    /\ assert_fails(Obj) = {}
    /\ last' = Call("write_file(use_stdout)", <<>>, "True")
    /\ UNCHANGED <<disk, lines, param_of, param_data, supported_params, extra_params,
                   source, nreads, cleanse_arg, cleanse_ret>>
    /\ UNCHANGED wiz_vars
    /\ UNCHANGED scr_vars
    /\ UNCHANGED disc_vars

\* a GrubFile built on a file or on none, edited and written to the file or
\* to stdout, the write failing or not
NextWrite ==
    \/ NextFail
    \/ WriteStdout

SpecWrite == InitFail /\ [][NextWrite]_vars

\* a GrubFile built on a file or on none, edited, written and read again
FilesLife == {concat(f) : f \in UNION {[1..n -> FilePieces] : n \in 0..MaxLifePieces}}

InitLife == InitOn(FilesLife \cup {NoFile})

NextLife ==
    \/ Next
    \/ ReadFile
    \/ WriteFileKeyError
    \/ NoRecord

SpecLife == InitLife /\ [][NextLife]_vars

\* the file is removed by someone else; open() then raises FileNotFoundError
RemoveFile ==
    /\ disk # NoFile
    /\ disk' = NoFile
    /\ last' = Call("remove", <<>>, "None")
    /\ UNCHANGED <<lines, param_of, param_data, supported_params, extra_params, source,
                   nreads, cleanse_arg, cleanse_ret>>
    /\ UNCHANGED wiz_vars
    /\ UNCHANGED scr_vars
    /\ UNCHANGED disc_vars

\* a GrubFile edited, written and read again, the file there or gone at the
\* time of a read
NextGone ==
    \/ NextLife
    \/ RemoveFile

SpecGone == InitLife /\ [][NextGone]_vars

\* _cleanse alone, on every short string of quotes, hashes, blanks and letters
ValueAlphabet == {"'", "\"", "#", " ", "a"}

ValueParts ==
    UNION {[1..n -> ValueAlphabet] : n \in 0..MaxValueLen}
    \cup {<<"\"","h","a","s"," ","#","h","a","s","h","\""," ","#"," ","t","r","a","i","l","i","n","g">>}

InitCleanse ==
    /\ disk = <<>>
    /\ LET o == construct(Supported0, disk)
       IN  /\ lines = o.lines
           /\ param_of = o.param_of
           /\ param_data = o.param_data
           /\ supported_params = o.supported_params
           /\ extra_params = o.extra_params
    /\ source = disk
    /\ last = Call("__init__", <<>>, "None")
    /\ nreads = 0
    /\ cleanse_arg \in ValueParts
    /\ cleanse_ret = None
    /\ NoValidator
    /\ NoScreens
    /\ NoDiscovery

Cleanse ==
    /\ cleanse_ret = None
    /\ NoValidator
    /\ NoScreens
    /\ NoDiscovery
    /\ cleanse_ret' = cleanse(cleanse_arg)
    /\ last' = Call("_cleanse", <<>>, "str")
    /\ UNCHANGED <<disk, lines, param_of, param_data, supported_params, extra_params,
                   source, nreads, cleanse_arg>>
    /\ UNCHANGED wiz_vars
    /\ UNCHANGED scr_vars
    /\ UNCHANGED disc_vars

SpecCleanse == InitCleanse /\ [][Cleanse]_vars

\* ===================================================================
\* The Rule Validation Engine and its disk-layout probe (WizValidator.py)
\* ===================================================================

\* SimpleNamespace(has_another_os=..., is_luks_active=..., is_lvm_active=...)
Layout(os, luks, lvm) == [has_another_os |-> os, is_luks_active |-> luks, is_lvm_active |-> lvm]

\* a parsed JSON value: its Python type and its content; the keys of a dict
\* are only ever compared whole, they are TLA+ strings
jnull == [t |-> "NoneType"]

\* a text json.loads rejects
NotJson == [t |-> "JSONDecodeError"]

jint == [t |-> "int"]

jstr(s) == [t |-> "str", v |-> s]

jlist(s) == [t |-> "list", v |-> s]

jdict(f) == [t |-> "dict", v |-> f]

LowerOf == [c \in Upper |->
    CASE c = "A" -> "a" [] c = "B" -> "b" [] c = "C" -> "c" [] c = "D" -> "d" [] c = "E" -> "e"
      [] c = "F" -> "f" [] c = "G" -> "g" [] c = "H" -> "h" [] c = "I" -> "i" [] c = "J" -> "j"
      [] c = "K" -> "k" [] c = "L" -> "l" [] c = "M" -> "m" [] c = "N" -> "n" [] c = "O" -> "o"
      [] c = "P" -> "p" [] c = "Q" -> "q" [] c = "R" -> "r" [] c = "S" -> "s" [] c = "T" -> "t"
      [] c = "U" -> "u" [] c = "V" -> "v" [] c = "W" -> "w" [] c = "X" -> "x" [] c = "Y" -> "y"
      [] c = "Z" -> "z"]

\* str.lower()
lower(s) == [k \in 1..Len(s) |-> IF s[k] \in Upper THEN LowerOf[s[k]] ELSE s[k]]

\* needle in hay, both str
is_in(needle, hay) ==
    \E k \in 0..(Len(hay) - Len(needle)) : SubSeq(hay, k + 1, k + Len(needle)) = needle

WindowsRecoveryGuid == <<"d","e","9","4","b","b","a","4","-","0","6","d","9","-","4","d","4","0","-","a","1","6","a","-","b","f","d","5","0","1","7","9","d","6","a","c">>

LvmGuid == <<"e","6","d","6","d","3","7","9","-","f","5","0","7","-","4","4","c","2","-","a","2","3","c","-","2","3","8","f","2","a","3","d","f","9","2","8">>

OtherOsFstypes == {<<"n","t","f","s">>, <<"v","f","a","t">>, <<"f","a","t","3","2">>, <<"e","x","f","a","t">>}

LuksFstypes == {<<"c","r","y","p","t","o","_","l","u","k","s">>, <<"c","r","y","p","t","o","_","l","u","k","s","2">>}

\* partition.get(key, ''): AttributeError unless partition is a dict
get_field(partition, key) ==
    IF partition.t # "dict" THEN [raised |-> "AttributeError", value |-> jnull]
    ELSE IF key \in DOMAIN partition.v THEN [raised |-> NoExc, value |-> partition.v[key]]
    ELSE [raised |-> NoExc, value |-> jstr(<<>>)]

\* the body of "for partition in device['children']" for one partition:
\* the flags after it, or the exception it raises
scan_partition(result, partition) ==
    LET f == get_field(partition, "FSTYPE")
        p == get_field(partition, "PARTTYPE")
    IN  IF f.raised # NoExc THEN [raised |-> f.raised, result |-> result]
        ELSE IF f.value.t # "str" THEN [raised |-> "AttributeError", result |-> result]
        ELSE IF p.value.t # "str" THEN [raised |-> "AttributeError", result |-> result]
        ELSE LET fstype == lower(f.value.v)
                 parttype == lower(p.value.v)
             IN  [raised |-> NoExc,
                  result |-> Layout(
                      \/ result.has_another_os
                      \/ fstype \in OtherOsFstypes
                      \/ is_in(WindowsRecoveryGuid, parttype),
                      \/ result.is_luks_active
                      \/ fstype \in LuksFstypes,
                      \/ result.is_lvm_active
                      \/ fstype = <<"l","v","m","2","_","m","e","m","b","e","r">>
                      \/ is_in(LvmGuid, parttype))]

\* "for partition in device['children']" from the k-th on, with its break
RECURSIVE scan_children(_, _, _)
scan_children(result, children, k) ==
    IF k > Len(children) THEN [raised |-> NoExc, result |-> result]
    ELSE LET r == scan_partition(result, children[k])
         IN  IF r.raised # NoExc THEN r
             ELSE IF /\ r.result.has_another_os
                     /\ r.result.is_luks_active
                     /\ r.result.is_lvm_active
                  THEN r
                  ELSE scan_children(r.result, children, k + 1)

\* "for device in data.get('blockdevices', [])" from the k-th on; of the
\* values that are not iterable or have no "in", only None and int occur
RECURSIVE scan_devices(_, _, _)
scan_devices(result, devices, k) ==
    IF k > Len(devices) THEN [raised |-> NoExc, result |-> result]
    ELSE LET device == devices[k]
         IN  IF device.t \in {"NoneType", "int"} THEN [raised |-> "TypeError", result |-> result]
             ELSE IF "children" \notin DOMAIN device.v THEN scan_devices(result, devices, k + 1)
             ELSE IF device.v["children"].t # "list" THEN [raised |-> "TypeError", result |-> result]
             ELSE LET r == scan_children(result, device.v["children"].v, 1)
                  IN  IF r.raised # NoExc THEN r
                      ELSE scan_devices(r.result, devices, k + 1)

\* "3. Scan Partitions" on the parsed output of lsblk
scan_data(result, data) ==
    IF data.t # "dict" THEN [raised |-> "AttributeError", result |-> result]
    ELSE LET blockdevices == IF "blockdevices" \in DOMAIN data.v
                             THEN data.v["blockdevices"] ELSE jlist(<<>>)
         IN  IF blockdevices.t # "list" THEN [raised |-> "TypeError", result |-> result]
             ELSE scan_devices(result, blockdevices.v, 1)

\* the part of probe_disk_layout that runs when nothing is cached, on what
\* running lsblk did: the exception that leaves it, or the facts it caches
\* and returns
probe_uncached(run) ==
    LET result == Layout(FALSE, FALSE, FALSE)
    IN  IF run.raised = "FileNotFoundError" THEN [raised |-> NoExc, result |-> result]
        ELSE IF run.raised # NoExc THEN [raised |-> run.raised, result |-> result]
        ELSE IF run.returncode # 0 THEN [raised |-> NoExc, result |-> result]
        ELSE IF run.stdout.t = "JSONDecodeError" THEN [raised |-> NoExc, result |-> result]
        ELSE scan_data(result, run.stdout)

\* the output of lsblk as the scan expects it: a dict whose blockdevices, if
\* any, are dicts whose children, if any, are dicts whose FSTYPE and
\* PARTTYPE, if any, are strings
partition_as_expected(partition) ==
    /\ partition.t = "dict"
    /\ \A key \in {"FSTYPE", "PARTTYPE"} \cap DOMAIN partition.v : partition.v[key].t = "str"

device_as_expected(device) ==
    /\ device.t = "dict"
    /\ "children" \in DOMAIN device.v =>
          /\ device.v["children"].t = "list"
          /\ \A k \in 1..Len(device.v["children"].v) :
                 partition_as_expected(device.v["children"].v[k])

data_as_expected(data) ==
    /\ data.t = "dict"
    /\ "blockdevices" \in DOMAIN data.v =>
          /\ data.v["blockdevices"].t = "list"
          /\ \A k \in 1..Len(data.v["blockdevices"].v) :
                 device_as_expected(data.v["blockdevices"].v[k])

\* how a run of lsblk ended
ended(run) ==
    IF run.raised = "FileNotFoundError" THEN "tool absent"
    ELSE IF run.raised # NoExc THEN "cannot run"
    ELSE IF run.returncode # 0 THEN "non-zero exit"
    ELSE IF run.stdout.t = "JSONDecodeError" THEN "malformed"
    ELSE IF ~data_as_expected(run.stdout) THEN "unexpected shape"
    ELSE "listed"

\* probe_disk_layout on what running lsblk does if it is run: what leaves
\* the call, the cache after it, and how the run of lsblk ended ("" if
\* lsblk was not run)
probe_disk_layout(cache, run) ==
    IF cache # NoCache
    THEN [raised |-> NoExc, result |-> cache, cache |-> cache, lsblk |-> ""]
    ELSE LET r == probe_uncached(run)
         IN  [raised |-> r.raised, result |-> r.result,
              cache |-> IF r.raised = NoExc THEN r.result ELSE NoCache,
              lsblk |-> ended(run)]

\* one partition of the output of lsblk
Partitions == {
    jdict([FSTYPE |-> jstr(<<"n","t","f","s">>), PARTTYPE |-> jstr(<<"E","6","D","6","D","3","7","9","-","F","5","0","7","-","4","4","C","2","-","A","2","3","C","-","2","3","8","F","2","A","3","D","F","9","2","8">>)]),
    jdict([FSTYPE |-> jstr(<<"c","r","y","p","t","o","_","L","U","K","S">>), PARTTYPE |-> jstr(<<>>)]),
    jdict([FSTYPE |-> jstr(<<"L","V","M","2","_","m","e","m","b","e","r">>)]),
    jdict([FSTYPE |-> jstr(<<"e","x","t","4">>), PARTTYPE |-> jstr(<<"d","e","9","4","b","b","a","4","-","0","6","d","9","-","4","d","4","0","-","a","1","6","a","-","b","f","d","5","0","1","7","9","d","6","a","c">>)]),
    jdict([FSTYPE |-> jstr(<<"e","x","t","4">>), PARTTYPE |-> jstr(<<"0","f","c","6","3","d","a","f","-","8","4","8","3","-","4","7","7","2","-","8","e","7","9","-","3","d","6","9","d","8","4","7","7","d","e","4">>)]),
    jdict([FSTYPE |-> jnull, PARTTYPE |-> jstr(<<"0","f","c","6","3","d","a","f","-","8","4","8","3","-","4","7","7","2","-","8","e","7","9","-","3","d","6","9","d","8","4","7","7","d","e","4">>)]),
    jdict([fstype |-> jstr(<<"n","t","f","s">>), parttype |-> jnull]) }

Device(children) == jdict([name |-> jstr(<<"s","d","a">>), children |-> jlist(children)])

\* what json.loads makes of the output of lsblk
LsblkOutputs ==
    {jdict([blockdevices |-> jlist(<<Device(c)>>)]) :
        c \in UNION {[1..n -> Partitions] : n \in 0..MaxPartitions}}
    \cup {jdict([blockdevices |-> jlist(<<jdict([name |-> jstr(<<"s","r","0">>)])>>)]),
          jdict([blockdevices |-> jlist(<<jdict([name |-> jstr(<<"s","d","a">>), children |-> jnull])>>)]),
          jdict([blockdevices |-> jlist(<<jnull>>)]),
          jdict([blockdevices |-> jint]),
          jdict([blockdevices |-> jnull]),
          jdict(<<>>),
          jlist(<<>>),
          jnull,
          NotJson}

\* what subprocess.run(['lsblk', ...]) does: it raises, or it returns a
\* CompletedProcess
LsblkRuns ==
    {[raised |-> e, returncode |-> 0, stdout |-> NotJson] :
        e \in {"FileNotFoundError", "PermissionError"}}
    \cup {[raised |-> NoExc, returncode |-> 1, stdout |-> NotJson]}
    \cup {[raised |-> NoExc, returncode |-> 0, stdout |-> o] : o \in LsblkOutputs}

\* ------------------------------------------------------- make_warns

GRUB_DEFAULT == <<"G","R","U","B","_","D","E","F","A","U","L","T">>

GRUB_SAVEDDEFAULT == <<"G","R","U","B","_","S","A","V","E","D","D","E","F","A","U","L","T">>

GRUB_HIDDEN_TIMEOUT == <<"G","R","U","B","_","H","I","D","D","E","N","_","T","I","M","E","O","U","T">>

GRUB_TIMEOUT_STYLE == <<"G","R","U","B","_","T","I","M","E","O","U","T","_","S","T","Y","L","E">>

GRUB_CMDLINE_LINUX_DEFAULT == <<"G","R","U","B","_","C","M","D","L","I","N","E","_","L","I","N","U","X","_","D","E","F","A","U","L","T">>

GRUB_CMDLINE_LINUX == <<"G","R","U","B","_","C","M","D","L","I","N","E","_","L","I","N","U","X">>

GRUB_BACKGROUND == <<"G","R","U","B","_","B","A","C","K","G","R","O","U","N","D">>

GRUB_GFXMODE == <<"G","R","U","B","_","G","F","X","M","O","D","E">>

GRUB_DISTRIBUTOR == <<"G","R","U","B","_","D","I","S","T","R","I","B","U","T","O","R">>

GRUB_DISABLE_OS_PROBER == <<"G","R","U","B","_","D","I","S","A","B","L","E","_","O","S","_","P","R","O","B","E","R">>

DecimalDigits == {"0","1","2","3","4","5","6","7","8","9"}

\* s.rstrip(c), s.lstrip(c), s.strip(c) for a character c
RECURSIVE rstrip_char(_, _)
rstrip_char(s, c) ==
    IF s # <<>> /\ s[Len(s)] = c THEN rstrip_char(SubSeq(s, 1, Len(s) - 1), c) ELSE s

RECURSIVE lstrip_char(_, _)
lstrip_char(s, c) ==
    IF s # <<>> /\ s[1] = c THEN lstrip_char(Tail(s), c) ELSE s

strip_char(s, c) == rstrip_char(lstrip_char(s, c), c)

\* s.split(c)
RECURSIVE split(_, _)
split(s, c) ==
    IF \A k \in 1..Len(s) : s[k] # c THEN <<s>>
    ELSE LET k == CHOOSE j \in 1..Len(s) : s[j] = c /\ \A i \in 1..(j - 1) : s[i] # c
         IN  <<SubSeq(s, 1, k - 1)>> \o split(SubSeq(s, k + 1, Len(s)), c)

\* s.isdigit()
isdigit(s) == s # <<>> /\ \A k \in 1..Len(s) : s[k] \in DecimalDigits

\* float(s): ValueError, or whether the number is above zero.  The strings
\* given to it here are decimal numerals (a sign, digits, at most one
\* point) or hold a character float accepts nowhere.
float(s) ==
    LET t == strip(s)
        signed == t # <<>> /\ t[1] \in {"+", "-"}
        body == IF signed THEN Tail(t) ELSE t
        points == {k \in 1..Len(body) : body[k] = "."}
        digits == {k \in 1..Len(body) : body[k] \in DecimalDigits}
    IN  IF /\ digits # {}
           /\ Cardinality(points) <= 1
           /\ points \cup digits = 1..Len(body)
        THEN [raised |-> NoExc,
              positive |-> ~(signed /\ t[1] = "-") /\ \E k \in digits : body[k] # "0"]
        ELSE [raised |-> "ValueError", positive |-> FALSE]

unquote(value) ==
    IF startswith(value, <<"'">>) THEN rstrip_char(Tail(value), "'")
    ELSE IF startswith(value, <<"\"">>) THEN rstrip_char(Tail(value), "\"")
    ELSE value

\* quotes(param): all forms of simple value in grub config
quotes(param) == {param, <<"\"">> \o param \o <<"\"">>, <<"'">> \o param \o <<"'">>}

\* sh(param): reduce GRUB_TIMEOUT to TIMEOUT
sh(param) == SubSeq(param, 6, Len(param))

\* stars[severity], severity in 1..4
stars == <<"*", "**", "***", "****">>

\* vals.get(param) and vals.get(param, default)
get(vals, param) == IF param \in DOMAIN vals THEN vals[param] ELSE None

get_or(vals, param, default) == IF param \in DOMAIN vals THEN vals[param] ELSE default

\* the run of make_warns so far: the warns dict, and the exception raised
Raise(st, exc) == [st EXCEPT !.raised = exc]

\* hey(param, severity, message): "if not warns[param]" reads warns[param];
\* a message is its text and the name put in it
hey(st, param, severity, text, arg) ==
    IF param \notin DOMAIN st.warns THEN Raise(st, "KeyError")
    ELSE [st EXCEPT !.warns[param] = Append(st.warns[param], <<stars[severity], <<text, arg>>>>)]

\* a hey made if none before it raised and its condition holds
hey_if(st, condition, param, severity, text, arg) ==
    IF st.raised # NoExc THEN st
    ELSE IF condition THEN hey(st, param, severity, text, arg)
    ELSE st

\* vals[param] read if nothing raised before: KeyError if it is not there
lookup(st, vals, param) ==
    IF st.raised = NoExc /\ param \notin DOMAIN vals THEN Raise(st, "KeyError") ELSE st

\* "if _DEFAULT is saved, then _SAVEDDEFAULT must be true"
check_saved(vals, st) ==
    LET p1 == GRUB_DEFAULT
        p2 == GRUB_SAVEDDEFAULT
    IN  IF st.raised # NoExc THEN st
        ELSE IF p1 \notin DOMAIN vals THEN Raise(st, "KeyError")
        ELSE IF vals[p1] \notin quotes(<<"s","a","v","e","d">>) THEN st
        ELSE IF p2 \notin DOMAIN vals THEN Raise(st, "KeyError")
        ELSE hey_if(st, vals[p2] \notin quotes(<<"t","r","u","e">>),
                    p2, 4, "must be \"true\" since {} is \"saved\"", sh(p1))

\* "Critical Check 2: DEFAULT=hidden & HIDDEN_TIMEOUT"
check_hidden_timeout(vals, st) ==
    LET p1 == GRUB_DEFAULT
        p2 == GRUB_HIDDEN_TIMEOUT
        is_zero_or_missing ==
            \/ get(vals, p2) = None
            \/ get(vals, p2) \in quotes(<<"0">>)
            \/ get(vals, p2) \in quotes(<<"0",".","0">>)
    IN  hey_if(st, get(vals, p1) \in quotes(<<"h","i","d","d","e","n">>) /\ is_zero_or_missing,
               p2, 4, "should be positive int when {} is \"hidden\"", sh(p1))

\* "Best Practice Check 1: TIMEOUT=0 & TIMEOUT_STYLE=hidden"
check_zero_timeout(vals, st) ==
    LET p1 == GRUB_TIMEOUT
        p2 == GRUB_TIMEOUT_STYLE
        is_zero_timeout == get(vals, p1) \in quotes(<<"0">>) \/ get(vals, p1) \in quotes(<<"0",".","0">>)
    IN  hey_if(st, is_zero_timeout /\ get(vals, p2) \in quotes(<<"h","i","d","d","e","n">>),
               p1, 4, "should be positive int when {}=\"hidden\"", sh(p2))

\* "Critical Check 3: TIMEOUT is > 0 but TIMEOUT_STYLE is NOT menu"
check_positive_timeout(vals, st) ==
    LET p1 == GRUB_TIMEOUT
        p2 == GRUB_TIMEOUT_STYLE
        timeout_val == unquote(get_or(vals, p1, <<"0">>))
        timeout_style == get(vals, p2)
        is_positive_timeout == float(timeout_val).positive
        is_not_menu == timeout_style \notin quotes(<<"m","e","n","u">>)
    IN  hey_if(st, is_positive_timeout /\ is_not_menu,
               p2, 4, "should be \"menu\" when {} > 0", sh(p1))

\* "Best Practice Check 2: 'quiet' only in GRUB_CMDLINE_LINUX_DEFAULT", and
\* the two layout checks; the four tests are made one after the other
check_cmdline(vals, layout, st) ==
    LET p1 == GRUB_CMDLINE_LINUX_DEFAULT
        p2 == GRUB_CMDLINE_LINUX
    IN  hey_if(
          hey_if(
            hey_if(
              hey_if(lookup(st, vals, p2),
                     is_in(<<"q","u","i","e","t">>, vals[p2]),
                     p2, 3, "\"quiet\" belongs only in {}", sh(p1)),
              is_in(<<"s","p","l","a","s","h">>, vals[p2]),
              p2, 3, "\"splash\" belongs only in {}", sh(p1)),
            layout.is_luks_active /\ ~is_in(<<"r","d",".","l","u","k","s",".","u","u","i","d","=">>, vals[p2]),
            p2, 3, "no \"rd.luks.uuid=\" but LUKS seems active", <<>>),
          layout.is_lvm_active /\ ~is_in(<<"r","d",".","l","v","m",".","v","g","=">>, vals[p2]),
          p2, 3, "no \"rd.lvm.vg=\" but LVM seems active", <<>>)

\* "Advanced Check 1: SAVEDEFAULT=true but DEFAULT is numeric"
check_numeric_default(vals, st) ==
    LET p1 == GRUB_SAVEDDEFAULT
        p2 == GRUB_DEFAULT
        default_value == get_or(vals, p2, <<"0">>)
    IN  hey_if(lookup(st, vals, p1),
               vals[p1] \in quotes(<<"t","r","u","e">>) /\ isdigit(unquote(default_value)),
               p2, 1, "avoid numeric when {}=\"true\"", sh(p1))

\* "Common Mistake Check 1: Unquoted values in CMDLINEs", for one p
check_unquoted(vals, p, st) ==
    LET value == get(vals, p)
    IN  hey_if(st, value # None /\ is_in(<<" ">>, value) /\ value \notin quotes(unquote(value)),
               p, 2, "has spaces and thus must be quoted", <<>>)

\* get_full_path_and_check_existence(path)[0]; fs is the set of paths,
\* stripped of their quotes, that the search of the base directories finds
path_exists(path, fs) ==
    IF path = <<>> THEN FALSE
    ELSE strip_char(strip_char(strip(path), "\""), "'") \in fs

\* "Common Mistake Check 2: GRUB_BACKGROUND path doesn't exist", for one p1
check_path(vals, fs, p1, st) ==
    hey_if(lookup(st, vals, p1), ~path_exists(vals[p1], fs),
           p1, 2, "path does not seem to exist", <<>>)

safe_modes == {<<"6","4","0","x","4","8","0">>, <<"8","0","0","x","6","0","0">>, <<"1","0","2","4","x","7","6","8">>, <<"a","u","t","o">>, <<"k","e","e","p">>}

\* "Common Mistake Check 4: GFXMODE set but not a known safe value"
check_gfxmode(vals, st) ==
    LET p1 == GRUB_GFXMODE
        value == get(vals, p1)
        parts == split(unquote(value), ",")
        modes == [k \in 1..Len(parts) |-> lower(strip(parts[k]))]
    IN  hey_if(st, /\ value # None
                   /\ value # <<>>
                   /\ \E k \in 1..Len(modes) : modes[k] \notin safe_modes,
               p1, 1, "perhaps unsupported; stick to common values", <<>>)

\* "Common Mistake Check 5: Missing GRUB_DISTRIBUTOR"
check_distributor(vals, st) ==
    LET p1 == GRUB_DISTRIBUTOR
    IN  hey_if(lookup(st, vals, p1), vals[p1] = <<>>,
               p1, 2, "should be distro name (it is missing/empty)", <<>>)

\* "Best Practice Check 4: OS-PROBER Disabled on Dual-Boot System"
check_os_prober(vals, layout, st) ==
    LET p1 == GRUB_DISABLE_OS_PROBER
        is_prober_disabled == get(vals, p1) \in quotes(<<"t","r","u","e">>)
        has_other_os == layout.has_another_os
    IN  hey_if(
          hey_if(st, is_prober_disabled /\ has_other_os,
                 p1, 2, "suggest setting \"false\" since multi-boot detected", <<>>),
          ~is_prober_disabled /\ ~has_other_os,
          p1, 1, "perhaps set \"true\" since no multi-boot detected?", <<>>)

\* whether the enum check looks at the value of this entry of param_cfg
enum_checked(entry, vals) ==
    LET has_enums == Len(entry.cfg.enums) > 0
        has_no_checks == Len(entry.cfg.checks) = 0
    IN  has_enums /\ has_no_checks /\ entry.name \in DOMAIN vals

\* found = any(value == unquote(str(k)) for k in enums.keys())
enum_found(entry, vals) ==
    LET value == unquote(vals[entry.name])
    IN  \E k \in 1..Len(entry.cfg.enums) : value = unquote(entry.cfg.enums[k])

\* "for param_name, cfg in self.param_cfg.items()" from the k-th on
RECURSIVE check_enums(_, _, _, _)
check_enums(cfg, vals, k, st) ==
    IF st.raised # NoExc \/ k > Len(cfg) THEN st
    ELSE check_enums(cfg, vals, k + 1,
            hey_if(st, enum_checked(cfg[k], vals) /\ ~enum_found(cfg[k], vals),
                   cfg[k].name, 3, "value not in list of allowed values", <<>>))

\* make_warns(vals) after "layout = self.probe_disk_layout()": the warns
\* dict it returns, or the exception that leaves it; a check is skipped once
\* one before it has raised
checks(cfg, layout, fs, vals) ==
    check_enums(cfg, vals, 1,
     check_os_prober(vals, layout,
      check_distributor(vals,
       check_gfxmode(vals,
        check_path(vals, fs, GRUB_THEME,
         check_path(vals, fs, GRUB_BACKGROUND,
          check_unquoted(vals, GRUB_CMDLINE_LINUX_DEFAULT,
           check_unquoted(vals, GRUB_CMDLINE_LINUX,
            check_numeric_default(vals,
             check_cmdline(vals, layout,
              check_positive_timeout(vals,
               check_zero_timeout(vals,
                check_hidden_timeout(vals,
                 check_saved(vals, [warns |-> <<>>, raised |-> NoExc]))))))))))))))

\* make_warns(vals), probe being what "layout = self.probe_disk_layout()"
\* did: the warns dict it returns, or the exception that leaves it
make_warns(cfg, probe, fs, vals) ==
    IF probe.raised # NoExc THEN [warns |-> <<>>, raised |-> probe.raised]
    ELSE checks(cfg, probe.result, fs, vals)

\* ------------------------------------------- the validator, as a machine

\* a key of vals that is not there
Missing == <<"KeyError">>

\* the metadata table the validator is built with: enums is the list of the
\* keys of cfg['enums'], checks the list cfg['checks']
WizCfg == <<
    [name |-> GRUB_TIMEOUT_STYLE,
     cfg |-> [enums |-> <<<<"m","e","n","u">>, <<"c","o","u","n","t","d","o","w","n">>, <<"h","i","d","d","e","n">>>>, checks |-> <<>>]],
    [name |-> GRUB_SAVEDDEFAULT,
     cfg |-> [enums |-> <<<<"\"","t","r","u","e","\"">>, <<"\"","f","a","l","s","e","\"">>>>, checks |-> <<>>]],
    [name |-> GRUB_GFXMODE,
     cfg |-> [enums |-> <<<<"a","u","t","o">>, <<"k","e","e","p">>>>, checks |-> <<"regex">>]],
    [name |-> GRUB_DISTRIBUTOR,
     cfg |-> [enums |-> <<>>, checks |-> <<>>]] >>

ValNames == {GRUB_DEFAULT, GRUB_SAVEDDEFAULT, GRUB_HIDDEN_TIMEOUT, GRUB_TIMEOUT,
             GRUB_TIMEOUT_STYLE, GRUB_CMDLINE_LINUX_DEFAULT, GRUB_CMDLINE_LINUX,
             GRUB_BACKGROUND, GRUB_THEME, GRUB_GFXMODE, GRUB_DISTRIBUTOR,
             GRUB_DISABLE_OS_PROBER}

\* a value mapping no check complains of, on a single-boot machine whose
\* two paths exist
UsualVals == [p \in ValNames |->
    CASE p = GRUB_DEFAULT -> <<"0">>
      [] p = GRUB_SAVEDDEFAULT -> <<"f","a","l","s","e">>
      [] p = GRUB_HIDDEN_TIMEOUT -> <<"5">>
      [] p = GRUB_TIMEOUT -> <<"5">>
      [] p = GRUB_TIMEOUT_STYLE -> <<"m","e","n","u">>
      [] p = GRUB_CMDLINE_LINUX_DEFAULT -> <<"\"","q","u","i","e","t"," ","s","p","l","a","s","h","\"">>
      [] p = GRUB_CMDLINE_LINUX -> <<"\"","\"">>
      [] p = GRUB_BACKGROUND -> <<"/","b">>
      [] p = GRUB_THEME -> <<"\"","/","t","\"">>
      [] p = GRUB_GFXMODE -> <<"a","u","t","o">>
      [] p = GRUB_DISTRIBUTOR -> <<"D","e","b","i","a","n">>
      [] p = GRUB_DISABLE_OS_PROBER -> <<"t","r","u","e">>]

\* the other values a parameter is given, besides none and the empty one
OtherVals == [p \in ValNames |->
    CASE p = GRUB_DEFAULT -> {<<"s","a","v","e","d">>, <<"\"","s","a","v","e","d","\"">>, <<"'","s","a","v","e","d","'">>, <<"h","i","d","d","e","n">>}
      [] p = GRUB_SAVEDDEFAULT -> {<<"t","r","u","e">>, <<"\"","t","r","u","e","\"">>}
      [] p = GRUB_HIDDEN_TIMEOUT -> {<<"0">>}
      [] p = GRUB_TIMEOUT -> {<<"0">>, <<"\"","0",".","0","\"">>, <<"-","1">>, <<"x">>}
      [] p = GRUB_TIMEOUT_STYLE -> {<<"h","i","d","d","e","n">>, <<"\"","h","i","d","d","e","n","\"">>, <<"c","o","u","n","t","d","o","w","n">>, <<"w","e","i","r","d">>}
      [] p = GRUB_CMDLINE_LINUX_DEFAULT -> {<<"a"," ","b">>}
      [] p = GRUB_CMDLINE_LINUX -> {<<"q","u","i","e","t">>, <<"a"," ","b">>, <<"\"","r","d",".","l","u","k","s",".","u","u","i","d","=","u"," ","r","d",".","l","v","m",".","v","g","=","v","\"">>}
      [] p = GRUB_BACKGROUND -> {<<"/","n">>}
      [] p = GRUB_THEME -> {<<"/","n">>}
      [] p = GRUB_GFXMODE -> {<<"\"","1","0","2","4","x","7","6","8",","," ","A","U","T","O","\"">>, <<"1","x","1">>}
      [] p = GRUB_DISTRIBUTOR -> {}
      [] p = GRUB_DISABLE_OS_PROBER -> {<<"f","a","l","s","e">>}]

\* vals with param given the value v, or taken out
changed(vals, param, v) ==
    IF v = Missing THEN [p \in DOMAIN vals \ {param} |-> vals[p]]
    ELSE [p \in DOMAIN vals \cup {param} |-> IF p = param THEN v ELSE vals[p]]

RECURSIVE ValsChanged(_)
ValsChanged(n) ==
    IF n = 0 THEN {UsualVals}
    ELSE LET less == ValsChanged(n - 1)
         IN  less \cup UNION {{changed(vals, p, v) :
                                   vals \in less, v \in OtherVals[p] \cup {<<>>, Missing}} :
                               p \in ValNames}

\* the value mappings make_warns is given
ValsPool == ValsChanged(MaxChanged) \cup {<<>>}

\* the paths the machine has
FsPool == {{<<"/","b">>, <<"/","t">>}, {<<"/","b">>}}

\* what lsblk does if this call runs it
RunsNow == IF disk_layout_cache # NoCache THEN {<<>>} ELSE LsblkRuns

\* no GrubFile is constructed
NoGrubFile ==
    /\ disk = <<>>
    /\ lines = <<>>
    /\ param_of = <<>>
    /\ param_data = <<>>
    /\ supported_params = <<>>
    /\ extra_params = <<>>
    /\ source = <<>>
    /\ last = Call("", <<>>, "None")
    /\ nreads = 0
    /\ cleanse_arg = <<>>
    /\ cleanse_ret = None

\* WizValidator(param_cfg)
InitWarn ==
    /\ NoGrubFile
    /\ NoScreens
    /\ NoDiscovery
    /\ disk_layout_cache = NoCache
    /\ wiz_param_cfg = WizCfg
    /\ lsblk_runs = 0
    /\ wiz_last = WizCall("__init__", <<>>, "", NoExc, NoCache)

\* what probe_disk_layout does now, lsblk doing one thing or another
ProbesNow == {probe_disk_layout(disk_layout_cache, run) : run \in RunsNow}

ProbeDiskLayout ==
    /\ disk_layout_cache # NoCache \/ lsblk_runs < MaxRuns
    /\ \E p \in ProbesNow :
          /\ disk_layout_cache' = p.cache
          /\ lsblk_runs' = lsblk_runs + (IF p.lsblk # "" THEN 1 ELSE 0)
          /\ wiz_last' = WizCall("probe_disk_layout", <<>>, p.lsblk, p.raised,
                                 IF p.raised = NoExc THEN p.result ELSE NoCache)
    /\ UNCHANGED wiz_param_cfg
    /\ UNCHANGED grub_vars
    /\ UNCHANGED scr_vars
    /\ UNCHANGED disc_vars

MakeWarns ==
    /\ disk_layout_cache # NoCache \/ lsblk_runs < MaxRuns
    /\ \E p \in ProbesNow : \E vals \in ValsPool : \E fs \in FsPool :
          \E r \in {make_warns(wiz_param_cfg, p, fs, vals)} :
              /\ disk_layout_cache' = p.cache
              /\ lsblk_runs' = lsblk_runs + (IF p.lsblk # "" THEN 1 ELSE 0)
              /\ wiz_last' = WizCall("make_warns", [vals |-> vals, fs |-> fs], p.lsblk,
                                     r.raised, r.warns)
    /\ UNCHANGED wiz_param_cfg
    /\ UNCHANGED grub_vars
    /\ UNCHANGED scr_vars
    /\ UNCHANGED disc_vars

NextWarn ==
    \/ ProbeDiskLayout
    \/ MakeWarns

SpecWarn == InitWarn /\ [][NextWarn]_vars

\* ===================================================================
\* main.py: the screen stack and the keys that move through the screens
\* ===================================================================

\* the most the cursor moves down a screen
MaxPos == 1

HOME_ST == 0

REVIEW_ST == 1

RESTORE_ST == 2

VIEW_ST == 3

WARN_ST == 4

HELP_ST == 5

\* screen names
SCREENS == <<"HOME", "REVIEW", "RESTORE", "VIEW", "WARN", "HELP">>

ScreenNums == {HOME_ST, REVIEW_ST, RESTORE_ST, VIEW_ST, WARN_ST, HELP_ST}

\* GrubWiz.prev_pos as _reinit leaves it: "to detect direction"
NoPrevPos == -1024

\* the ScreenStack, the positions of its window and the data its hooks use
App == [stack |-> stack, curr |-> curr, pick_pos |-> pick_pos,
        scroll_pos |-> scroll_pos, bak_lines |-> bak_lines]

\* "self.curr.num if self.curr else None"
num_of(c) == IF c = NoCurr THEN PyNone ELSE Returned(c.num)

\* enter_screen of the screen object: ViewScreen lets in only when a backup
\* is loaded; the others let in (ReviewScreen and RestoreScreen refresh data
\* that is not the stack's)
enter_screen(screen, from_screen, bak) ==
    [ok |-> IF screen = VIEW_ST THEN bak = "lines" ELSE TRUE, bak_lines |-> bak]

\* leave_screen of the screen object: every screen lets out; ViewScreen
\* drops the backup it showed (WarnScreen writes its own file)
leave_screen(screen, to_screen, bak) ==
    [ok |-> TRUE, bak_lines |-> IF screen = VIEW_ST THEN "None" ELSE bak]

\* a push that does not look for the screen on the stack
push_unchecked(app, screen, pos) ==
    LET left == IF app.curr # NoCurr
                THEN leave_screen(app.curr.num, screen, app.bak_lines)
                ELSE [ok |-> TRUE, bak_lines |-> app.bak_lines]
        entered == enter_screen(screen, num_of(app.curr), left.bak_lines)
    IN  IF app.curr # NoCurr /\ screen = app.curr.num
        THEN [rv |-> PyNone, app |-> app]
        ELSE IF ~left.ok
        THEN [rv |-> PyNone, app |-> [app EXCEPT !.bak_lines = left.bak_lines]]
        ELSE IF ~entered.ok
        THEN [rv |-> PyNone, app |-> [app EXCEPT !.bak_lines = entered.bak_lines]]
        ELSE [rv |-> Returned(0),
              app |-> [stack |-> IF app.curr # NoCurr
                                 THEN Append(app.stack,
                                             [app.curr EXCEPT !.pick_pos = app.pick_pos,
                                                              !.scroll_pos = app.scroll_pos,
                                                              !.prev_pos = pos])
                                 ELSE app.stack,
                       curr |-> [num |-> screen, name |-> SCREENS[screen + 1],
                                 pick_pos |-> -1, scroll_pos |-> -1, prev_pos |-> -1],
                       pick_pos |-> 0,
                       scroll_pos |-> 0,
                       bak_lines |-> entered.bak_lines]]

\* ScreenStack.push(screen, prev_pos), force False, the screen objects given
push(app, screen, pos) ==
    LET left == IF app.curr # NoCurr
                THEN leave_screen(app.curr.num, screen, app.bak_lines)
                ELSE [ok |-> TRUE, bak_lines |-> app.bak_lines]
        entered == enter_screen(screen, num_of(app.curr), left.bak_lines)
    IN  IF app.curr # NoCurr /\ screen = app.curr.num
        THEN [rv |-> PyNone, app |-> app]
        ELSE IF \E k \in 1..Len(app.stack) : app.stack[k].num = screen
        THEN [rv |-> PyNone, app |-> app]
        ELSE IF ~left.ok
        THEN [rv |-> PyNone, app |-> [app EXCEPT !.bak_lines = left.bak_lines]]
        ELSE IF ~entered.ok
        THEN [rv |-> PyNone, app |-> [app EXCEPT !.bak_lines = entered.bak_lines]]
        ELSE [rv |-> Returned(0),
              app |-> [stack |-> IF app.curr # NoCurr
                                 THEN Append(app.stack,
                                             [app.curr EXCEPT !.pick_pos = app.pick_pos,
                                                              !.scroll_pos = app.scroll_pos,
                                                              !.prev_pos = pos])
                                 ELSE app.stack,
                       curr |-> [num |-> screen, name |-> SCREENS[screen + 1],
                                 pick_pos |-> -1, scroll_pos |-> -1, prev_pos |-> -1],
                       pick_pos |-> 0,
                       scroll_pos |-> 0,
                       bak_lines |-> entered.bak_lines]]

\* ScreenStack.pop(), force False, the screen objects given
pop(app) ==
    IF app.stack = <<>> THEN [rv |-> PyNone, app |-> app]
    ELSE
      LET top == app.stack[Len(app.stack)]
          left == IF app.curr # NoCurr
                  THEN leave_screen(app.curr.num, top.num, app.bak_lines)
                  ELSE [ok |-> TRUE, bak_lines |-> app.bak_lines]
          entered == enter_screen(top.num, num_of(app.curr), left.bak_lines)
      IN  IF ~left.ok
          THEN [rv |-> PyNone, app |-> [app EXCEPT !.bak_lines = left.bak_lines]]
          ELSE IF ~entered.ok
          THEN [rv |-> PyNone, app |-> [app EXCEPT !.bak_lines = entered.bak_lines]]
          ELSE [rv |-> Returned(top.prev_pos),
                app |-> [stack |-> SubSeq(app.stack, 1, Len(app.stack) - 1),
                         curr |-> top,
                         pick_pos |-> top.pick_pos,
                         scroll_pos |-> top.scroll_pos,
                         bak_lines |-> entered.bak_lines]]

\* ScreenStack(win, spins, SCREENS, screens): an empty stack and push(HOME_ST, 0)
ScreenStack(app) == push([app EXCEPT !.stack = <<>>, !.curr = NoCurr], HOME_ST, 0).app

\* GrubWiz.navigate_to(screen_num): [rv, app, prev_pos]
navigate_to(app, pos, screen_num) ==
    LET result == push(app, screen_num, pos)
    IN  IF result.rv # PyNone
        THEN [rv |-> TRUE, app |-> result.app, prev_pos |-> result.rv.v]
        ELSE [rv |-> FALSE, app |-> result.app, prev_pos |-> pos]

\* GrubWiz.navigate_back(): [rv, app, prev_pos]
navigate_back(app, pos) ==
    LET result == pop(app)
    IN  IF result.rv # PyNone
        THEN [rv |-> TRUE, app |-> [result.app EXCEPT !.bak_lines = "None"],
              prev_pos |-> result.rv.v]
        ELSE [rv |-> FALSE, app |-> result.app, prev_pos |-> pos]

\* GrubWiz.handle_escape()
handle_escape(app, pos) ==
    IF app.stack # <<>> THEN navigate_back(app, pos)
    ELSE [rv |-> FALSE, app |-> app, prev_pos |-> pos]

\* ---------------------------------------------------------- the machine

InstallApp(app) ==
    /\ stack' = app.stack
    /\ curr' = app.curr
    /\ pick_pos' = app.pick_pos
    /\ scroll_pos' = app.scroll_pos
    /\ bak_lines' = app.bak_lines

\* a key handled by main_loop: r is what the handler made of the screens
Handled(op, arg, r) ==
    /\ InstallApp(r.app)
    /\ prev_pos' = r.prev_pos
    /\ nav_last' = NavCall(op, arg, NoExc, Returned(r.rv))
    /\ UNCHANGED grub_vars
    /\ UNCHANGED wiz_vars
    /\ UNCHANGED disc_vars

\* the screens after setup_win
InitNavScreens ==
    /\ \E a \in {ScreenStack([stack |-> <<>>, curr |-> NoCurr, pick_pos |-> 0,
                                scroll_pos |-> 0, bak_lines |-> "None"])} :
          /\ stack = a.stack
          /\ curr = a.curr
          /\ pick_pos = a.pick_pos
          /\ scroll_pos = a.scroll_pos
          /\ bak_lines = a.bak_lines
    /\ prev_pos = NoPrevPos
    /\ nav_last = NavCall("__init__", <<>>, NoExc, PyNone)

\* GrubWiz as main_loop has it after setup_win: _reinit done, the six screen
\* objects made, the ScreenStack constructed on them
InitNav ==
    /\ NoGrubFile
    /\ NoValidator
    /\ NoDiscovery
    /\ InitNavScreens

\* ESC: "if self.ss.act_in('escape'): self.handle_escape()"
Escape ==
    /\ curr # NoCurr
    /\ Handled("handle_escape", <<>>, handle_escape(App, prev_pos))

\* '?': "if self.ss.act_in('help_mode'): self.navigate_to(HELP_ST)"
HelpMode ==
    /\ curr # NoCurr
    /\ Handled("navigate_to", HELP_ST, navigate_to(App, prev_pos, HELP_ST))

\* 'R': enter_restore, in HOME and REVIEW only
EnterRestore ==
    /\ curr.num \in {HOME_ST, REVIEW_ST}
    /\ Handled("navigate_to", RESTORE_ST, navigate_to(App, prev_pos, RESTORE_ST))

\* 'W': enter_warnings, in every screen
EnterWarnings ==
    /\ curr # NoCurr
    /\ Handled("navigate_to", WARN_ST, navigate_to(App, prev_pos, WARN_ST))

\* 'w' in HOME: HomeScreen.write_ACTION
WriteHome ==
    /\ curr.num = HOME_ST
    /\ Handled("navigate_to", REVIEW_ST, navigate_to(App, prev_pos, REVIEW_ST))

\* 'w' in REVIEW: update_grub; once the update is done, _reinit and a new
\* ScreenStack (what update_grub writes and reads is GrubFile's)
UpdateGrub ==
    /\ curr.num = REVIEW_ST
    /\ \E ok \in BOOLEAN :
          Handled("update_grub", <<>>,
                  IF ok THEN [rv |-> TRUE, app |-> ScreenStack(App), prev_pos |-> NoPrevPos]
                  ELSE [rv |-> FALSE, app |-> App, prev_pos |-> prev_pos])

\* 'q' in RESTORE: "if self.ss.is_curr(RESTORE_ST): self.navigate_back()"
QuitRestore ==
    /\ curr.num = RESTORE_ST
    /\ Handled("navigate_back", <<>>, navigate_back(App, prev_pos))

\* 'v' in RESTORE: RestoreScreen.view_ACTION on the backup picked; the file
\* read has lines, or none, or cannot be read
View ==
    /\ curr.num = RESTORE_ST
    /\ \E read \in {"lines", "[]", "error"} :
          IF read = "error"
          THEN Handled("view_ACTION", read, [rv |-> FALSE, app |-> App, prev_pos |-> prev_pos])
          ELSE Handled("view_ACTION", read,
                       navigate_to([App EXCEPT !.bak_lines = read], prev_pos, VIEW_ST))

\* 'r' in RESTORE: RestoreScreen.restore_ACTION on the backup picked; the
\* assertion stops it when the screen gone back to is not HOME, unless
\* python -O drops the assertion
Restore ==
    /\ curr.num = RESTORE_ST
    /\ LET back == navigate_back(App, prev_pos)
       IN  IF ~back.rv THEN Handled("restore_ACTION", <<>>, back)
           ELSE \E optimized \in BOOLEAN :
                  IF back.app.curr.num # HOME_ST /\ ~optimized
                  THEN /\ InstallApp(back.app)
                       /\ prev_pos' = back.prev_pos
                       /\ nav_last' = NavCall("restore_ACTION", <<>>, "AssertionError", PyNone)
                       /\ UNCHANGED grub_vars
                       /\ UNCHANGED wiz_vars
                       /\ UNCHANGED disc_vars
                  ELSE Handled("restore_ACTION", <<>>,
                               [rv |-> TRUE, app |-> ScreenStack(back.app),
                                prev_pos |-> NoPrevPos])

\* the cursor moved in the window; in HOME and REVIEW
\* adjust_picked_pos_w_clues leaves it, and prev_pos, on pos
MoveCursor ==
    /\ \E pos \in 0..MaxPos :
          /\ pos # pick_pos
          /\ pick_pos' = pos
          /\ prev_pos' = IF curr.num \in {HOME_ST, REVIEW_ST} THEN pos ELSE prev_pos
    /\ nav_last' = NavCall("prompt", <<>>, NoExc, PyNone)
    /\ UNCHANGED <<stack, curr, scroll_pos, bak_lines>>
    /\ UNCHANGED grub_vars
    /\ UNCHANGED wiz_vars
    /\ UNCHANGED disc_vars

NextNav ==
    \/ Escape
    \/ HelpMode
    \/ EnterRestore
    \/ EnterWarnings
    \/ WriteHome
    \/ UpdateGrub
    \/ QuitRestore
    \/ View
    \/ Restore
    \/ MoveCursor

SpecNav == InitNav /\ [][NextNav]_vars

\* ScreenStack.push called with any screen and any position
Push ==
    \E screen \in ScreenNums : \E pos \in 0..MaxPos :
        \E r \in {push(App, screen, pos)} :
            /\ InstallApp(r.app)
            /\ nav_last' = NavCall("push", screen, NoExc, r.rv)
            /\ UNCHANGED prev_pos
            /\ UNCHANGED grub_vars
            /\ UNCHANGED wiz_vars
            /\ UNCHANGED disc_vars

\* ScreenStack.pop called
Pop ==
    \E r \in {pop(App)} :
        /\ InstallApp(r.app)
        /\ nav_last' = NavCall("pop", <<>>, NoExc, r.rv)
        /\ UNCHANGED prev_pos
        /\ UNCHANGED grub_vars
        /\ UNCHANGED wiz_vars
        /\ UNCHANGED disc_vars

\* a backup read into bak_lines, as view_ACTION does before it navigates
LoadBackup ==
    /\ \E read \in {"lines", "[]"} : bak_lines' = read
    /\ nav_last' = NavCall("read_text", <<>>, NoExc, PyNone)
    /\ UNCHANGED <<stack, curr, pick_pos, scroll_pos, prev_pos>>
    /\ UNCHANGED grub_vars
    /\ UNCHANGED wiz_vars
    /\ UNCHANGED disc_vars

\* the ScreenStack alone, pushed and popped in any order
NextStack ==
    \/ Push
    \/ Pop
    \/ LoadBackup

SpecStack == InitNav /\ [][NextStack]_vars

\* ===================================================================
\* ParamDiscovery.py: the cache of the parameters the system documents
\* ===================================================================

STATE_NO_INFO == "NO_INFO"

STATE_CANNOT_PARSE == "CANNOT_PARSE_INFO"

STATE_OK == "OK"

WEEK_IN_SECONDS == 7 * 24 * 60 * 60

\* the clock shows so many weeks and so many seconds at most
MaxWeeks == 2

MaxSeconds == 2

\* what the clock shows
Instants == {w * WEEK_IN_SECONDS + sec : w \in 0..MaxWeeks, sec \in 0..MaxSeconds}

\* names 'info grub' may show, already matched and filtered
InfoNames == {"GRUB_TIMEOUT", "GRUB_DEFAULT"}

\* what running 'info' comes to: it is not found, times out, fails, raises
\* something else, or runs and shows some names
InfoResults ==
    {[kind |-> k, names |-> {}] : k \in {"not_found", "timeout", "failed", "error"}}
        \cup {[kind |-> "ran", names |-> n] : n \in SUBSET InfoNames}

\* ParamDiscovery.discover_params(): (params, state)
discover_params(info) ==
    IF info.kind \in {"not_found", "timeout", "failed"}
    THEN [params |-> {}, state |-> STATE_NO_INFO]
    ELSE IF info.kind = "error"
    THEN [params |-> {}, state |-> STATE_CANNOT_PARSE]
    ELSE IF info.names # {}
    THEN [params |-> info.names, state |-> STATE_OK]
    ELSE [params |-> {}, state |-> STATE_CANNOT_PARSE]

\* ParamDiscovery.save_params(params, state): the cache file it writes
save_params(params, state, clock) ==
    [params |-> params, state |-> state, timestamp |-> clock]

\* ParamDiscovery.load_cached_data() on a cache file save_params wrote, or none
load_cached_data(file) == file

\* ParamDiscovery.should_regenerate(cached_data)
should_regenerate(cached_data, clock) ==
    IF cached_data = NoCache THEN TRUE
    ELSE IF cached_data.state = STATE_NO_INFO THEN TRUE
    ELSE IF cached_data.state \in {STATE_CANNOT_PARSE, STATE_OK}
    THEN clock - cached_data.timestamp > WEEK_IN_SECONDS
    ELSE TRUE

\* get_system_params that saves whatever the discovery came to
get_system_params_replacing(file, clock, force_regenerate, info) ==
    LET cached_data == load_cached_data(file)
        found == discover_params(info)
    IN  IF ~force_regenerate /\ cached_data # NoCache
           /\ ~should_regenerate(cached_data, clock)
        THEN [rv |-> cached_data.params, cache_file |-> file, discovered |-> FALSE]
        ELSE [rv |-> found.params,
              cache_file |-> save_params(found.params, found.state, clock),
              discovered |-> TRUE]

\* ParamDiscovery.get_system_params(force_regenerate):
\* [rv, cache_file, discovered]
get_system_params(file, clock, force_regenerate, info) ==
    LET cached_data == load_cached_data(file)
        found == discover_params(info)
    IN  IF ~force_regenerate /\ cached_data # NoCache
           /\ ~should_regenerate(cached_data, clock)
        THEN [rv |-> cached_data.params, cache_file |-> file, discovered |-> FALSE]
        ELSE IF cached_data # NoCache /\ cached_data.state = STATE_OK
                /\ found.state # STATE_OK
        THEN [rv |-> cached_data.params,
              cache_file |-> save_params(cached_data.params, STATE_OK, clock),
              discovered |-> TRUE]
        ELSE [rv |-> found.params,
              cache_file |-> save_params(found.params, found.state, clock),
              discovered |-> TRUE]

\* ---------------------------------------------------------- the machine

\* a ParamDiscovery on a configuration directory without a cache file
InitDisc ==
    /\ NoGrubFile
    /\ NoValidator
    /\ NoScreens
    /\ cache_file = NoCache
    /\ now = 0
    /\ disc_last = DiscCall("__init__", <<>>, FALSE, {})

\* get_system_params called, forced or not, 'info' doing what it does
GetSystemParams ==
    /\ \E force_regenerate \in BOOLEAN : \E info \in InfoResults :
          \E r \in {get_system_params(cache_file, now, force_regenerate, info)} :
              /\ cache_file' = r.cache_file
              /\ disc_last' = DiscCall("get_system_params",
                                       [force_regenerate |-> force_regenerate,
                                        info |-> info, cached |-> cache_file,
                                        clock |-> now],
                                       r.discovered, r.rv)
    /\ UNCHANGED now
    /\ UNCHANGED grub_vars
    /\ UNCHANGED wiz_vars
    /\ UNCHANGED scr_vars

\* time.time() moves on, by a second or by a week
Tick ==
    /\ \E d \in {1, WEEK_IN_SECONDS} :
          /\ now + d \in Instants
          /\ now' = now + d
    /\ UNCHANGED <<cache_file, disc_last>>
    /\ UNCHANGED grub_vars
    /\ UNCHANGED wiz_vars
    /\ UNCHANGED scr_vars

NextDisc ==
    \/ GetSystemParams
    \/ Tick

SpecDisc == InitDisc /\ [][NextDisc]_vars

\* ===================================================================
\* What the claims speak of
\* ===================================================================

\* the lines of the file read, and of the file written
InLines == readlines(source)

OutLines == readlines(disk)

\* the state right after a write_file that wrote the file
Written == last.op = "write_file" /\ last.rv = "True"

NoEdits == \A p \in DOMAIN param_data : param_data[p].new_value = None

InMatch(i) == re_match(strip(InLines[i]))

\* every parameter name has at most one assignment line, commented or not
SingleClaim ==
    \A i, j \in 1..Len(InLines) :
        (i # j /\ InMatch(i).ok /\ InMatch(j).ok) => InMatch(i).param # InMatch(j).param

\* no character of the file read is one the code keeps for "commented" or "absent"
SentinelFree == \A k \in 1..Len(source) : source[k] \notin {COMMENT[1], ABSENT[1]}

\* no line of the file read is ended by a carriage return
NewlineOnly == \A k \in 1..Len(source) : source[k] # "\r"

\* C1: a file whose lines are pass-through lines and at most one assignment
\* line per parameter name, read and written back with no edit, is written
\* exactly as it was read.
C1_RoundTrip ==
    (Written /\ NoEdits /\ SingleClaim) => disk = source

\* C2: a parameter with several uncommented assignment lines has the cleansed
\* value of the last of them; a write with no edits emits each earlier one with
\* '#' before it and the last one as it was read.
C2_DuplicateResolution ==
    LET ls == InLines
        m == [i \in 1..Len(ls) |-> re_match(strip(ls[i]))]
        out == OutLines
    IN  \A p \in DOMAIN param_data :
            LET uncommented == {i \in 1..Len(ls) :
                                   m[i].ok /\ ~m[i].is_comment /\ m[i].param = p}
                final == Max(uncommented)
            IN  Cardinality(uncommented) >= 2 =>
                    /\ param_data[p].value = cleanse(m[final].value_part)
                    /\ param_data[p].line_num = final
                    /\ (Written /\ NoEdits) =>
                          /\ Len(out) = Len(ls)
                          /\ \A i \in uncommented :
                                out[i] = IF i = final THEN ls[i] ELSE <<"#">> \o ls[i]

\* C3: the file written, read by a fresh model and written again with no
\* edit, is written as it was.
C3_WriteIdempotent ==
    Written => file_content(new_lines(construct(Supported0, disk))) = disk

\* the quoting in force after the first i characters of v: a quote character
\* opens a section when none is open and closes the section it opened
RECURSIVE QuoteAfter(_, _)
QuoteAfter(v, i) ==
    IF i = 0 THEN "none"
    ELSE LET q == QuoteAfter(v, i - 1)
         IN  IF q = "none"
             THEN (IF v[i] = "'" THEN "single" ELSE IF v[i] = "\"" THEN "double" ELSE "none")
             ELSE IF q = "single" THEN (IF v[i] = "'" THEN "none" ELSE "single")
             ELSE (IF v[i] = "\"" THEN "none" ELSE "double")

\* the '#' characters of v outside both kinds of quotes
UnquotedHashes(v) == {i \in 1..Len(v) : v[i] = "#" /\ QuoteAfter(v, i - 1) = "none"}

\* the positions where a quote opens that nothing closes, no '#' outside
\* quotes standing before it (a quote character after such a '#' is comment text)
Unclosed(v) ==
    {i \in 1..Len(v) : /\ QuoteAfter(v, i - 1) = "none"
                       /\ \A k \in i..Len(v) : QuoteAfter(v, k) # "none"
                       /\ \A h \in UnquotedHashes(v) : i < h}

\* C4: _cleanse returns the trimmed text before the first '#' outside single
\* and double quotes, all of the trimmed text when there is none; a '#' inside
\* quotes before that point is kept, and so is everything after a quote that
\* is opened (before any such '#') and never closed.
C4_Cleanse ==
    last.op = "_cleanse" =>
        LET v == strip(cleanse_arg)
            H == UnquotedHashes(v)
        IN  /\ cleanse_ret = strip(IF H = {} THEN v ELSE SubSeq(v, 1, Min(H) - 1))
            /\ \A i \in 1..Len(v) :
                  (v[i] = "#" /\ i \notin H /\ \A h \in H : i < h)
                      => (Len(cleanse_ret) >= i /\ cleanse_ret[i] = "#")
            /\ \A i \in Unclosed(v) : SubSeq(cleanse_ret, i, Len(cleanse_ret)) = SubSeq(v, i, Len(v))

C4_Witness ==
    /\ last.op = "_cleanse"
    /\ cleanse_arg = <<"\"","h","a","s"," ","#","h","a","s","h","\""," ","#"," ","t","r","a","i","l","i","n","g">>
    /\ cleanse_ret = <<"\"","h","a","s"," ","#","h","a","s","h","\"">>

Literal(x) == x \notin {None, COMMENT, ABSENT}

Contains(hay, needle) ==
    \E k \in 0..(Len(hay) - Len(needle)) :
        /\ hay[k + 1] = needle[1]
        /\ SubSeq(hay, k + 1, k + Len(needle)) = needle

\* the block the spec describes for an appended parameter
Block(entry, v) ==
    LET W == wrap_guidance(entry.cfg.guidance)
    IN  <<"\n">> \o concat([k \in 1..Len(W) |-> <<"#", " ">> \o W[k] \o <<"\n">>])
        \o entry.name \o <<"=">> \o v \o <<"\n">>

\* C5: for a parameter whose value after the parse is ABSENT, the file written
\* holds the block (a newline, the wrapped guidance lines each after '# ', then
\* NAME=value) after the lines read when its pending value is a literal, and
\* holds no line for it when its pending value is unset or COMMENTED.
C5_AbsentToSet ==
    Written =>
        LET out == OutLines
            m == [j \in 1..Len(out) |-> re_match(strip(out[j]))]
            nread == Len(InLines)
        IN  \A k \in 1..Len(supported_params) :
                LET entry == supported_params[k]
                    data == param_data[entry.name]
                    assignments == {j \in 1..Len(out) : m[j].ok /\ m[j].param = entry.name}
                IN  data.value = ABSENT =>
                        IF Literal(data.new_value)
                        THEN /\ Contains(disk, Block(entry, data.new_value))
                             /\ \E j \in (nread + 1)..Len(out) :
                                   /\ assignments = {j}
                                   /\ out[j] = entry.name \o <<"=">> \o data.new_value \o <<"\n">>
                        ELSE assignments = {}

\* the lines of a file as they stand in it, each with the terminator it has
RECURSIVE FileLines(_)
FileLines(content) ==
    LET ends == {i \in 1..Len(content) : content[i] \in {"\n", "\r"}}
    IN  IF content = <<>> THEN <<>>
        ELSE IF ends = {} THEN <<content>>
        ELSE
          LET e == Min(ends)
              stop == IF content[e] = "\r" /\ e < Len(content) /\ content[e + 1] = "\n"
                      THEN e + 1 ELSE e
          IN  <<SubSeq(content, 1, stop)>> \o FileLines(SubSeq(content, stop + 1, Len(content)))

\* the lines of a are lines of b, in the order they have in a
RECURSIVE IsSubsequence(_, _)
IsSubsequence(a, b) ==
    IF a = <<>> THEN TRUE
    ELSE IF b = <<>> THEN FALSE
    ELSE IF a[1] = b[1] THEN IsSubsequence(Tail(a), Tail(b))
    ELSE IsSubsequence(a, Tail(b))

IsPassThrough(line) == ~re_match(strip(line)).ok

\* C6: the lines of the file read that are blank or do not match the
\* assignment pattern stand in the file written with the same text and the
\* same terminator, in the order they had, whatever was edited before the write.
C6_PassThrough ==
    Written =>
        IsSubsequence(SelectSeq(FileLines(source), IsPassThrough), FileLines(disk))

\* C7: for a parameter that owns a line and has a pending literal v, the file
\* written has NAME=v and a newline as the line at the owned line's position,
\* the line commented or not when read, and has that text on no other line.
C7_EditInPlace ==
    Written =>
        LET out == OutLines
        IN  \A p \in DOMAIN param_data :
                LET data == param_data[p]
                IN  (data.line_num # NoLine /\ Literal(data.new_value)) =>
                        {j \in 1..Len(out) : out[j] = p \o <<"=">> \o data.new_value \o <<"\n">>}
                            = {data.line_num}

\* a line with its newline, the last line of a file having none of its own
Terminated(line) ==
    IF line # <<>> /\ line[Len(line)] = "\n" THEN line ELSE Append(line, "\n")

\* the lines before line i that write_file leaves out
Dropped(i) ==
    {k \in 1..(i - 1) : /\ param_of[k] # <<>>
                        /\ param_data[param_of[k]].value = ABSENT
                        /\ param_data[param_of[k]].new_value = COMMENT}

\* C8: del_parameter leaves the parameter's pending value COMMENTED; the file
\* written then has the owned line with one '#' before it when the record's
\* value was a literal, and as it was read when the record's value was COMMENTED.
C8_Clear ==
    /\ last.op = "del_parameter" => param_data[last.param].new_value = COMMENT
    /\ Written =>
          LET ls == InLines
              out == OutLines
          IN  \A p \in DOMAIN param_data :
                  LET data == param_data[p]
                      i == data.line_num
                      j == i - Cardinality(Dropped(i))
                  IN  (i # NoLine /\ data.new_value = COMMENT /\ data.value # ABSENT) =>
                          /\ j \in 1..Len(out)
                          /\ Terminated(out[j]) =
                                Terminated(IF Literal(data.value) THEN <<"#">> \o ls[i]
                                           ELSE ls[i])

C8_Witness ==
    /\ Written
    /\ \E p \in DOMAIN param_data :
          /\ param_data[p].line_num # NoLine /\ param_data[p].new_value = COMMENT
          /\ param_data[p].value = COMMENT
    /\ \E p \in DOMAIN param_data :
          /\ param_data[p].line_num # NoLine /\ param_data[p].new_value = COMMENT
          /\ Literal(param_data[p].value)

\* C9: a step of set_new_value or del_parameter changes the pending value of
\* the parameter named and nothing else: not the line buffer, the ownership
\* table, any record's value, line index or out-of-band value, another
\* parameter's pending value, or the file.
C9_Step ==
    last'.op \in {"set_new_value", "del_parameter"} =>
        /\ UNCHANGED <<disk, lines, param_of, supported_params, extra_params>>
        /\ DOMAIN param_data' = DOMAIN param_data
        /\ \A p \in DOMAIN param_data :
              /\ param_data'[p].value = param_data[p].value
              /\ param_data'[p].line_num = param_data[p].line_num
              /\ param_data'[p].out_value = param_data[p].out_value
              /\ p # last'.param => param_data'[p].new_value = param_data[p].new_value

C9_PendingOnly == [][C9_Step]_vars

C9_Witness ==
    /\ last.op = "set_new_value"
    /\ param_data[last.param].new_value \in LegalValues
    /\ param_data[last.param].value # param_data[last.param].new_value
    /\ disk = source /\ source # <<>>

\* C10: no record's pending value is ever the ABSENT sentinel, whatever
\* strings set_new_value is called with.
C10_NoPendingAbsent ==
    \A p \in DOMAIN param_data : param_data[p].new_value # ABSENT

\* C11: a write_file whose open or write fails returns False, and leaves the
\* line buffer, the ownership table and every record as they were; the
\* content write_file writes is file_content(new_lines(Obj)), a function of
\* these alone, so a second write_file writes what the first would have.
C11_Step ==
    (last'.op = "write_file" /\ last'.rv = "False") =>
        UNCHANGED <<lines, param_of, param_data, supported_params, extra_params>>

C11_WriteFailure == [][C11_Step]_vars

C11_Witness ==
    /\ last.op = "write_file" /\ last.rv = "False"
    /\ \E p \in DOMAIN param_data : Literal(param_data[p].new_value)
    /\ \E p \in DOMAIN param_data : param_data[p].new_value = COMMENT
    /\ source # <<>> /\ disk = <<>>

\* C12: a model constructed against a file that does not exist has, for every
\* parameter of the metadata table, a record with effective value ABSENT, no
\* line and no pending value.
C12_MissingFile ==
    (source = NoFile /\ last.op = "__init__") =>
        \A p \in names_of(supported_params) :
            /\ p \in DOMAIN param_data
            /\ param_data[p].value = ABSENT
            /\ param_data[p].line_num = NoLine
            /\ param_data[p].new_value = None

\* the last call was make_warns, its probe having found or left facts cached
Warned == wiz_last.op = "make_warns" /\ disk_layout_cache # NoCache

\* the messages of one severity and text that a returned warns dict holds for param
Messages(warns, param, severity, text) ==
    IF param \notin DOMAIN warns THEN {}
    ELSE {k \in 1..Len(warns[param]) :
            warns[param][k][1] = stars[severity] /\ warns[param][k][2][1] = text}

\* the messages of one severity that a returned warns dict holds for param
SeverityMessages(warns, param, severity) ==
    IF param \notin DOMAIN warns THEN {}
    ELSE {k \in 1..Len(warns[param]) : warns[param][k][1] = stars[severity]}

\* warns without its k-th message for param
Without(warns, param, k) ==
    [p \in DOMAIN warns |->
        IF p = param
        THEN SubSeq(warns[p], 1, k - 1) \o SubSeq(warns[p], k + 1, Len(warns[p]))
        ELSE warns[p]]

\* C13: given GRUB_DEFAULT saved (bare, double- or single-quoted) and
\* GRUB_SAVEDDEFAULT false, make_warns returns a mapping with exactly one
\* severity-4 message for GRUB_SAVEDDEFAULT, and given the same mapping with
\* GRUB_SAVEDDEFAULT true it returns that mapping less this one message.
C13_SavedBoundary ==
    LET vals == wiz_last.input.vals
        probe == [raised |-> NoExc, result |-> disk_layout_cache]
        other == make_warns(wiz_param_cfg, probe, wiz_last.input.fs,
                            changed(vals, GRUB_SAVEDDEFAULT, <<"t","r","u","e">>))
        four == SeverityMessages(wiz_last.rv, GRUB_SAVEDDEFAULT, 4)
    IN  ( /\ Warned
          /\ {GRUB_DEFAULT, GRUB_SAVEDDEFAULT} \subseteq DOMAIN vals
          /\ vals[GRUB_DEFAULT] \in {<<"s","a","v","e","d">>, <<"\"","s","a","v","e","d","\"">>, <<"'","s","a","v","e","d","'">>}
          /\ vals[GRUB_SAVEDDEFAULT] = <<"f","a","l","s","e">> ) =>
            /\ wiz_last.raised = NoExc
            /\ Cardinality(four) = 1
            /\ other.raised = NoExc
            /\ \E k \in four :
                  \/ other.warns = Without(wiz_last.rv, GRUB_SAVEDDEFAULT, k)
                  \/ /\ Len(wiz_last.rv[GRUB_SAVEDDEFAULT]) = 1
                     /\ other.warns = [p \in DOMAIN wiz_last.rv \ {GRUB_SAVEDDEFAULT} |->
                                          wiz_last.rv[p]]

\* C14: for every parameter whose metadata has enums and no checks and that
\* has a value, make_warns returns a mapping with exactly one severity-3
\* "not in list" message for it if the unquoted value is none of the unquoted
\* enum keys, and with no such message if it is one of them.
C14_EnumCheck ==
    Warned =>
        \A k \in 1..Len(wiz_param_cfg) :
            LET entry == wiz_param_cfg[k]
                vals == wiz_last.input.vals
                unquoted == IF vals[entry.name][1] \in {"'", "\""}
                            THEN strip_char(strip_char(vals[entry.name], "'"), "\"")
                            ELSE vals[entry.name]
                keys == {unquote(entry.cfg.enums[j]) : j \in 1..Len(entry.cfg.enums)}
                told == Messages(wiz_last.rv, entry.name, 3, "value not in list of allowed values")
            IN  ( /\ entry.cfg.enums # <<>>
                  /\ entry.cfg.checks = <<>>
                  /\ entry.name \in DOMAIN vals
                  /\ vals[entry.name] # <<>> ) =>
                    IF unquoted \in keys
                    THEN wiz_last.raised = NoExc => told = {}
                    ELSE wiz_last.raised = NoExc /\ Cardinality(told) = 1

\* C15: make_warns returns a warns mapping whatever the value mapping, and
\* what it returns for a mapping that lacks a parameter is what it returns
\* for the mapping that has it empty.
C15_NeverRaises ==
    Warned =>
        /\ wiz_last.raised = NoExc
        /\ \A p \in ValNames \ DOMAIN wiz_last.input.vals :
              LET probe == [raised |-> NoExc, result |-> disk_layout_cache]
                  other == make_warns(wiz_param_cfg, probe, wiz_last.input.fs,
                                      changed(wiz_last.input.vals, p, <<>>))
              IN  other.raised = NoExc /\ other.warns = wiz_last.rv

\* C16: lsblk is run at most once, however its run ended, and once there are
\* facts every probe_disk_layout returns them.
C16_Step ==
    disk_layout_cache # NoCache =>
        /\ disk_layout_cache' = disk_layout_cache
        /\ wiz_last'.op = "probe_disk_layout" =>
              wiz_last'.raised = NoExc /\ wiz_last'.rv = disk_layout_cache

C16_ProbeOnce == [](lsblk_runs <= 1) /\ [][C16_Step]_vars

\* C17: a call whose run of lsblk found no tool, ended with a non-zero exit
\* status, or printed what is no JSON or JSON of another shape than
\* expected, raises nothing, and the facts it leaves are all false.
C17_ProbeDegrade ==
    wiz_last.lsblk \in {"tool absent", "non-zero exit", "malformed", "unexpected shape"} =>
        /\ wiz_last.raised \notin {"AttributeError", "TypeError", "FileNotFoundError",
                                   "JSONDecodeError"}
        /\ disk_layout_cache = Layout(FALSE, FALSE, FALSE)
        /\ wiz_last.op = "probe_disk_layout" => wiz_last.rv = Layout(FALSE, FALSE, FALSE)

\* the lines of the buffer that the ownership table gives to param
Owners(param) == {i \in 1..Len(param_of) : param_of[i] = param}

\* the lines of the buffer that are an assignment of param, commented or not
Mentions(param) ==
    {i \in 1..Len(lines) :
        LET m == re_match(strip(lines[i])) IN m.ok /\ m.param = param}

\* C18: after read_file and any edits and writes, at most one entry of the
\* ownership table names a parameter, it is the entry at the line index of
\* the parameter's record, and every other line that mentions the parameter
\* has no owner.
C18_SingleOwnership ==
    \A param \in DOMAIN param_data :
        /\ Cardinality(Owners(param)) <= 1
        /\ \A i \in Owners(param) : param_data[param].line_num = i
        /\ \A i \in Mentions(param) \ {param_data[param].line_num} : param_of[i] = <<>>

C18_Witness ==
    /\ Written
    /\ \E param \in DOMAIN param_data :
          /\ Cardinality(Mentions(param)) = 2
          /\ Cardinality(Owners(param)) = 1
          /\ param_data[param].new_value # None

\* the record of param is that of a commented line: its line is a commented
\* assignment of param in the buffer and its out_value that line's cleansed value
OnCommentedLine(param) ==
    LET data == param_data[param]
    IN  /\ data.line_num \in 1..Len(lines)
        /\ LET m == re_match(strip(lines[data.line_num]))
           IN  /\ m.ok
               /\ m.is_comment
               /\ m.param = param
               /\ data.out_value = cleanse(m.value_part)

\* C19: after any reads, edits and writes, a record whose value is ABSENT has
\* no line, and a record whose value is COMMENT has the line of a commented
\* assignment of its parameter, with out_value that line's cleansed value.
C19_RecordInvariants ==
    \A param \in DOMAIN param_data :
        /\ param_data[param].value = ABSENT => param_data[param].line_num = NoLine
        /\ param_data[param].value = COMMENT => OnCommentedLine(param)

C20_Step ==
    (Written /\ last'.op = "read_file") =>
        \A p \in DOMAIN param_data :
            /\ p \in DOMAIN param_data'
            /\ param_data'[p].new_value = None
            /\ Literal(param_data[p].new_value) =>
                   param_data'[p].value = cleanse(param_data[p].new_value)
            /\ (param_data[p].new_value = COMMENT /\ SentinelFree) =>
                   param_data'[p].value =
                       IF param_data[p].value = ABSENT THEN ABSENT ELSE COMMENT

C21_Precedence ==
    source # NoFile =>
        LET ls == InLines
            m == [i \in 1..Len(ls) |-> re_match(strip(ls[i]))]
        IN  \A p \in DOMAIN param_data :
                LET uncommented == {i \in 1..Len(ls) :
                                       m[i].ok /\ ~m[i].is_comment /\ m[i].param = p}
                    commented == {i \in 1..Len(ls) :
                                     m[i].ok /\ m[i].is_comment /\ m[i].param = p}
                    data == param_data[p]
                IN  /\ uncommented # {} =>
                          /\ data.value = cleanse(m[Max(uncommented)].value_part)
                          /\ data.line_num = Max(uncommented)
                          /\ param_of[Max(uncommented)] = p
                          /\ \A i \in commented : i > Max(uncommented) => param_of[i] = <<>>
                    /\ (uncommented = {} /\ commented # {}) =>
                          /\ data.value = COMMENT
                          /\ data.line_num = Max(commented)
                          /\ param_of[Max(commented)] = p
                          /\ data.out_value = cleanse(m[Max(commented)].value_part)

\* the comment lines right above line i of ls, down from the last line above
\* i that is blank or no comment, each without its '#' and the blanks after it
CommentBlock(ls, i) ==
    LET stops == {j \in 1..(i - 1) :
                     LET line == strip(ls[j]) IN line = <<>> \/ Head(line) # "#"}
        from == IF stops = {} THEN 1 ELSE Max(stops) + 1
    IN  [j \in 1..(i - from) |-> lstrip(Tail(strip(ls[from + j - 1])))]

\* C22: after construction on a file, every name of an assignment line,
\* commented or not, that the metadata table given does not have and that is
\* not known absent has exactly one entry in supported_params, the same entry
\* in extra_params and a record; the entry is the template with no enums and
\* the EXPERT_EDIT marker for edit_re, the cleansed value of the name's first
\* line as default and the comment block above that line as guidance; no
\* other entry is added.
C22_Discovered ==
    (source # NoFile /\ nreads = 0) =>
        LET ls == InLines
            m == [i \in 1..Len(ls) |-> re_match(strip(ls[i]))]
            found == {m[i].param : i \in {j \in 1..Len(ls) : m[j].ok}}
            discovered == {p \in found : p \notin names_of(Supported0) /\ ~get_absent(p)}
        IN  /\ names_of(supported_params) = names_of(Supported0) \cup discovered
            /\ DOMAIN extra_params = discovered
            /\ Len(supported_params) = Len(Supported0) + Cardinality(discovered)
            /\ \A p \in discovered :
                  LET first == Min({i \in 1..Len(ls) : m[i].ok /\ m[i].param = p})
                      entry == [default |-> cleanse(m[first].value_part),
                                edit_re |-> "EXPERT_EDIT",
                                enums |-> <<>>,
                                guidance |-> join(<<"\n">>, CommentBlock(ls, first)),
                                hide |-> FALSE]
                  IN  /\ extra_params[p] = entry
                      /\ \E k \in 1..Len(supported_params) :
                            supported_params[k] = [name |-> p, cfg |-> entry]
                      /\ p \in DOMAIN param_data

\* a name discovered on a file that has two lines of it, each under a
\* comment line
C22_Witness ==
    /\ source # NoFile /\ nreads = 0
    /\ GRUB_FOO \in DOMAIN extra_params
    /\ extra_params[GRUB_FOO].guidance = <<"f","o","o"," ","d","o","c">>
    /\ extra_params[GRUB_FOO].default = <<"1">>
    /\ Cardinality({i \in 1..Len(lines) :
            LET mat == re_match(strip(lines[i])) IN mat.ok /\ mat.param = GRUB_FOO}) = 2

\* the file read is empty, or its last line is ended by a line terminator
\* and is not blank
EndsInFullLine ==
    \/ source = <<>>
    \/ /\ source[Len(source)] \in {"\n", "\r"}
       /\ LET ls == InLines IN strip(ls[Len(ls)]) # <<>>

\* C23: in the file written, the block of every parameter appended (value
\* ABSENT, pending value a literal) stands after exactly one blank line: the
\* line before its first line is empty, and the line before that, if there
\* is one, is not.
C23_Separation ==
    Written =>
        LET out == OutLines
        IN  \A k \in 1..Len(supported_params) :
                LET entry == supported_params[k]
                    data == param_data[entry.name]
                    W == wrap_guidance(entry.cfg.guidance)
                IN  (data.value = ABSENT /\ Literal(data.new_value)) =>
                        \E j \in (Len(W) + 2)..Len(out) :
                            /\ out[j] = entry.name \o <<"=">> \o data.new_value \o <<"\n">>
                            /\ \A w \in 1..Len(W) :
                                  out[j - Len(W) + w - 1] = <<"#", " ">> \o W[w] \o <<"\n">>
                            /\ out[j - Len(W) - 1] = <<"\n">>
                            /\ j - Len(W) - 2 >= 1 => strip(out[j - Len(W) - 2]) # <<>>

\* the value stands between two single or two double quotes
Enclosed(value) ==
    /\ Len(value) >= 2
    /\ value[1] \in {"'", "\""}
    /\ value[Len(value)] = value[1]

\* C24: for each of the two kernel command line parameters that has a value,
\* make_warns returns a mapping with a severity-2 "must be quoted" message
\* for it if the value has a space and is not enclosed in quotes, and with no
\* such message if it is enclosed in quotes.
C24_Quoting ==
    Warned =>
        \A p \in {GRUB_CMDLINE_LINUX, GRUB_CMDLINE_LINUX_DEFAULT} :
            LET vals == wiz_last.input.vals
                told == Messages(wiz_last.rv, p, 2, "has spaces and thus must be quoted")
            IN  p \in DOMAIN vals =>
                    /\ (is_in(<<" ">>, vals[p]) /\ ~Enclosed(vals[p])) =>
                          (wiz_last.raised = NoExc /\ told # {})
                    /\ Enclosed(vals[p]) => told = {}

\* -------------------------------------------------------------------
\* What holds of the claims that fail, on the files that keep clear of
\* the two causes of failure
\* -------------------------------------------------------------------

\* the round trip of C1 is exact when no line is ended by a carriage return
RoundTrip_NewlineOnly == NewlineOnly => C1_RoundTrip

\* the pass-through lines of C6 are written as read when no line is ended by a
\* carriage return
PassThrough_NewlineOnly == NewlineOnly => C6_PassThrough

\* the duplicates of C2 are resolved as said when no value in the file is one
\* of the two characters the code keeps for "commented" and "absent"
DuplicateResolution_SentinelFree == SentinelFree => C2_DuplicateResolution

\* so is the second write of C3 the same as the first
WriteIdempotent_SentinelFree == SentinelFree => C3_WriteIdempotent

\* so is the appended block of C5 written when and only when said
AbsentToSet_SentinelFree == SentinelFree => C5_AbsentToSet

\* so is the edited line of C7 written in place and nowhere else
EditInPlace_SentinelFree == SentinelFree => C7_EditInPlace

\* C19 holds of a file none of whose values is a sentinel
RecordInvariants_SentinelFree == SentinelFree => C19_RecordInvariants

\* C21 holds of a file none of whose values is a sentinel
Precedence_SentinelFree == SentinelFree => C21_Precedence

\* C23 holds of a file that is empty or whose last line is terminated and
\* not blank
Separation_EndsInFullLine == EndsInFullLine => C23_Separation

\* C25: whenever escape is handled with a non-empty stack, the screen last
\* stacked is the current one again and is off the stack; escape is never
\* refused
C25_EscapeStep ==
    (nav_last'.op = "handle_escape" /\ stack # <<>>) =>
        /\ nav_last'.rv = Returned(TRUE)
        /\ curr'.num = stack[Len(stack)].num
        /\ stack' = SubSeq(stack, 1, Len(stack) - 1)

C25_EscapeGoesBack == [][C25_EscapeStep]_vars

\* escape refused: VIEW was left for HELP or WARN, and cannot be entered again
C25_Refused ==
    ~(/\ nav_last.op = "handle_escape"
      /\ nav_last.rv = Returned(FALSE)
      /\ stack # <<>>
      /\ stack[Len(stack)].num = VIEW_ST)

\* the screens that let escape back in: every state but those with VIEW
\* stacked and no backup loaded
Escape_ViewNotStacked ==
    [][(\A k \in 1..Len(stack) : stack[k].num # VIEW_ST) => C25_EscapeStep]_vars

\* the screen numbers of the current screen and of the stacked ones differ
\* one from another
NoScreenTwice ==
    /\ \A j, k \in 1..Len(stack) : stack[j].num = stack[k].num => j = k
    /\ \A k \in 1..Len(stack) : curr # NoCurr => stack[k].num # curr.num

\* a push of the current screen or of a stacked one returns None; a push or
\* a pop that returns None leaves the current screen and the stack as they were
C26_Step ==
    /\ (nav_last'.op = "push" /\ (nav_last'.arg = curr.num
                                  \/ \E k \in 1..Len(stack) : stack[k].num = nav_last'.arg))
           => nav_last'.rv = PyNone
    /\ (nav_last'.op \in {"push", "pop"} /\ nav_last'.rv = PyNone)
           => (curr' = curr /\ stack' = stack)
    /\ (nav_last'.op \in {"push", "pop"} /\ nav_last'.rv # PyNone)
           => (curr' # curr /\ stack' # stack)

\* C26: after any pushes and pops, not forced, no screen number is twice among
\* the current and the stacked screens; a push of the current or of a stacked
\* screen, and a push or pop that a hook blocks, returns None and leaves the
\* current screen and the stack unchanged
C26_LoopPrevention == []NoScreenTwice /\ [][C26_Step]_vars

\* a push of a screen that is deep on the stack was refused, and before it a
\* hook had blocked nothing: three screens are stacked
C26_Witness ==
    /\ nav_last.op = "push"
    /\ nav_last.rv = PyNone
    /\ Len(stack) = 3
    /\ stack[1].num = nav_last.arg
    /\ curr.num = VIEW_ST

\* what a get_system_params call does to a cache: a cached OK stays OK, and
\* its parameters change only to those an OK discovery found; NO_INFO is
\* discovered again; OK and CANNOT_PARSE are discovered again, on their own
\* account, exactly when older than a week; a forced call discovers
C27_Step ==
    disc_last'.op = "get_system_params" /\ disc_last' # disc_last =>
        LET call == disc_last'.input
            cached == call.cached
            age == call.clock - cached.timestamp
        IN  /\ call.force_regenerate => disc_last'.discovered
            /\ cached = NoCache => disc_last'.discovered
            /\ cached # NoCache =>
                 /\ cached.state = STATE_OK =>
                      /\ cache_file'.state = STATE_OK
                      /\ disc_last'.rv = cache_file'.params
                      /\ cache_file'.params # cached.params =>
                           /\ disc_last'.discovered
                           /\ call.info.kind = "ran"
                           /\ call.info.names # {}
                           /\ cache_file'.params = call.info.names
                 /\ cached.state = STATE_NO_INFO => disc_last'.discovered
                 /\ (cached.state \in {STATE_OK, STATE_CANNOT_PARSE}
                        /\ ~call.force_regenerate) =>
                      (disc_last'.discovered <=> age > WEEK_IN_SECONDS)
                 /\ ~disc_last'.discovered => cache_file' = cache_file

\* C27: over any get_system_params calls, forced or not, a cached OK status
\* is never replaced by another status nor its parameters by what a non-OK
\* discovery found; a cached NO_INFO is always discovered again, a cached OK
\* or CANNOT_PARSE only when older than one week
C27_CacheKeepsOK ==
    /\ [][cache_file # NoCache /\ cache_file.state = STATE_OK
              => cache_file' # NoCache /\ cache_file'.state = STATE_OK]_vars
    /\ [][C27_Step]_vars

\* an OK cache, older than a week, was discovered again without force, the
\* discovery came to nothing, and the parameters cached before were returned
C27_Witness ==
    /\ disc_last.op = "get_system_params"
    /\ ~disc_last.input.force_regenerate
    /\ disc_last.discovered
    /\ disc_last.input.cached # NoCache
    /\ disc_last.input.cached.state = STATE_OK
    /\ disc_last.input.clock - disc_last.input.cached.timestamp > WEEK_IN_SECONDS
    /\ disc_last.input.info.kind = "failed"
    /\ cache_file.state = STATE_OK
    /\ cache_file.params = InfoNames
    /\ disc_last.rv = InfoNames
    /\ cache_file.timestamp = now

\* the lines of the file written that assign to p, uncommented
ActiveAssignments(p) ==
    LET ls == OutLines
    IN  {i \in 1..Len(ls) :
            \E m \in {re_match(strip(ls[i]))} : m.ok /\ ~m.is_comment /\ m.param = p}

\* C28: the file write_file wrote has, for each parameter of the metadata
\* table, at most one uncommented assignment line of that name
C28_UniqueActive ==
    Written => \A p \in names_of(supported_params) : Cardinality(ActiveAssignments(p)) <= 1

\* on a file none of whose values is a sentinel, the output has at most one
\* uncommented assignment of each name of the table
UniqueActive_SentinelFree == SentinelFree => C28_UniqueActive

\* what line i of the buffer is in the output: itself, itself after '#', or
\* the assignment of the pending value
OutputOf(i) ==
    LET param == param_of[i]
    IN  IF param = <<>> THEN {lines[i]}
        ELSE IF param_data[param].new_value = None THEN {lines[i]}
        ELSE IF param_data[param].new_value = COMMENT THEN {lines[i], <<"#">> \o lines[i]}
        ELSE {param \o <<"=">> \o param_data[param].new_value \o <<"\n">>}

\* line i of the buffer is line i of the file written
C29_OneForOne ==
    Written =>
        \E out \in {OutLines} :
            \A i \in 1..Len(lines) :
                /\ i <= Len(out)
                /\ \E x \in OutputOf(i) : out[i] \in {x, Terminated(x)}

\* write_file, to the file or to stdout, done or failed, leaves the buffer,
\* the ownership table and the records as they were, and a second write
\* right after a write leaves the file as the first wrote it
C29_Step ==
    last'.op \in {"write_file", "write_file(use_stdout)"} =>
        /\ lines' = lines
        /\ param_of' = param_of
        /\ param_data' = param_data
        /\ (Written /\ last'.op = "write_file" /\ last'.rv = "True") => disk' = disk
        /\ last'.op = "write_file(use_stdout)" => disk' = disk

\* C29: write_file, done or failed, to the file or to stdout, leaves the line
\* buffer, the ownership table and every record's value, pending value and
\* out_value unchanged; two writes in a row give the same content; every line
\* of the buffer is exactly one line of the output, at the same place
C29_WriteReadOnly == [][C29_Step]_vars /\ []C29_OneForOne

\* write_file leaves the model alone
WriteFrame == [][C29_Step]_vars

\* on a file none of whose values is a sentinel, every line of the buffer is
\* one line of the output, at the same place
OneForOne_SentinelFree == SentinelFree => C29_OneForOne

\* what a read_file on a loaded model leaves: no pending value, and the
\* buffer, the ownership table and the records a first read of the file as
\* it is now gives
C30_Step ==
    last'.op = "read_file" =>
        \E first \in {construct(Supported0, disk)} :
            /\ \A p \in DOMAIN param_data' : param_data'[p].new_value = None
            /\ lines' = first.lines
            /\ param_of' = first.param_of
            /\ param_data' = first.param_data

\* C30: after read_file on a model already loaded no parameter has a pending
\* value, and the line buffer, the ownership table and the records are those
\* of the file's content now; an unchanged file read again gives what the
\* first read gave
C30_ReloadResets == [][C30_Step]_vars

\* the file being there, read_file resets the model
Reload_FileThere == [][disk # NoFile => C30_Step]_vars

====
